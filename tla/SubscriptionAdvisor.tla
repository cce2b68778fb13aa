------------------------- MODULE SubscriptionAdvisor -------------------------
(***************************************************************************)
(* /souscription/nouvelle: the five steps of a subscription (for whom, the *)
(* form, the usage, the advisor's questions, the recommendation), the      *)
(* advisor that picks the next question and the product, and the contract  *)
(* created from its recommendation.                                        *)
(*                                                                         *)
(* A question is its id, an answer one of its options.  The advisor goes   *)
(* by the age the birth date gives; the usage is turned into an answer by  *)
(* the profile the back end has stored, which may be older.                *)
(***************************************************************************)
EXTENDS Integers, Sequences, SequencesExt, ServiceNames

CONSTANTS
    Beneficiaries,    \* the persons of the household
    Age,              \* Age[b]: from the birth date
    CurrentProfile    \* CurrentProfile[b]: the stored profile

Profile == {"junior", "scolaire", "etudiant", "adulte", "senior", "tst", "amethyste"}

QuestionId == {"is_enrolled", "has_scholarship", "travel_habit", "social_right_level",
               "liberte_support", "has_navigo_card"}

ASSUME BeneficiariesAssumption ==
    /\ Age \in [Beneficiaries -> Nat]
    /\ CurrentProfile \in [Beneficiaries -> Profile]

VARIABLES
    step,       \* the step of the wizard, 6 once the contract is created
    who,        \* the beneficiary selected
    usage,      \* the usage selected
    answers,    \* the answers to the advisor, None when there is none
    history,    \* advisorHistory: the questions answered, in order
    created     \* the contract created, None before

advisorVars == <<step, who, usage, answers, history, created>>

-----------------------------------------------------------------------------
(* The advisor. *)

deduceProfile(age) ==
    CASE age < 11         -> "junior"
      [] age \in 11 .. 17 -> "scolaire"
      [] age \in 18 .. 25 -> "etudiant"
      [] age >= 62        -> "senior"
      [] OTHER            -> "adulte"

Pupils == {"scolaire", "etudiant"}
Adults == {"adulte", "senior"}

\* The options a user can choose; "telephone" is shown disabled.
Options(q) ==
    CASE q = "travel_habit"       -> {"daily", "occasional", "social_rights", "department_assigned"}
      [] q = "social_right_level" -> {"gratuite", "solidarite_75", "reduction_50"}
      [] q = "liberte_support"    -> {"passe"}
      [] OTHER                    -> {"yes", "no"}

NoAnswer == [q \in QuestionId |-> None]

AdultProduct(profile, a) ==
    CASE a["travel_habit"] = "daily" ->
            IF profile = "senior" THEN "navigo_senior" ELSE "navigo_annuel"
      [] a["travel_habit"] = "occasional" -> "liberte_plus"
      [] a["travel_habit"] = "social_rights" /\ a["social_right_level"] # None -> "tst"
      [] a["travel_habit"] = "department_assigned" -> "amethyste"
      [] OTHER -> None

\* buildRecommendation: None where it throws.
Product(age, a) ==
    LET profile == deduceProfile(age) IN
    CASE profile \in Adults  -> AdultProduct(profile, a)
      [] profile = "junior"  -> IF age < 4 THEN None ELSE "imagine_r_junior"
      [] profile \in Pupils  ->
            CASE a["is_enrolled"] # "yes" -> None
              [] a["is_enrolled"] = "yes" /\ profile = "scolaire" -> "imagine_r_scolaire"
              [] a["is_enrolled"] = "yes" /\ profile = "etudiant" -> "imagine_r_etudiant"

withScholarship(age, a) == deduceProfile(age) \in Pupils /\ a["has_scholarship"] = "yes"

\* The question of the person's situation.
ProfileQuestion(age, a) ==
    LET profile == deduceProfile(age) IN
    CASE profile \in Pupils /\ a["is_enrolled"] = None -> "is_enrolled"
      [] /\ profile \in Pupils
         /\ a["is_enrolled"] = "yes" /\ a["has_scholarship"] = None -> "has_scholarship"
      [] profile \in Adults /\ a["travel_habit"] = None -> "travel_habit"
      [] /\ profile \in Adults
         /\ a["travel_habit"] = "social_rights" /\ a["social_right_level"] = None
         -> "social_right_level"
      [] OTHER -> None

\* getAdvisorStep: the question to ask, None when there is none left.
NextQuestion(age, a) ==
    CASE ProfileQuestion(age, a) # None -> ProfileQuestion(age, a)
      [] ProfileQuestion(age, a) = None /\ a["travel_habit"] = "occasional"
            /\ a["liberte_support"] = None -> "liberte_support"
      [] /\ ProfileQuestion(age, a) = None
         /\ ~ (a["travel_habit"] = "occasional" /\ a["liberte_support"] = None)
         /\ a["has_navigo_card"] = None /\ Product(age, a) # None -> "has_navigo_card"
      [] OTHER -> None

canRecommend(age, a) == NextQuestion(age, a) = None /\ Product(age, a) # None

-----------------------------------------------------------------------------
(* The catalogue, and what the file of the contract will ask for. *)

productCatalog ==
    [imagine_r_junior   |-> {"identity_document", "photo", "school_certificate"},
     imagine_r_scolaire |-> {"identity_document", "photo", "school_certificate"},
     imagine_r_etudiant |-> {"identity_document", "photo", "student_certificate"},
     navigo_annuel      |-> {"identity_document", "photo", "address_proof", "payment_mandate"},
     navigo_senior      |-> {"identity_document", "photo"},
     liberte_plus       |-> {"identity_document", "payment_mandate"},
     tst                |-> {"identity_document", "social_right", "address_proof"},
     amethyste          |-> {"identity_document", "address_proof"}]

DOCUMENT_TO_JUSTIFICATIF ==
    [identity_document       |-> "piece_identite",
     school_certificate      |-> "certificat_scolarite",
     student_certificate     |-> "certificat_scolarite",
     scholarship_certificate |-> "attestation_bourse",
     photo                   |-> "photo",
     address_proof           |-> "justificatif_domicile",
     payment_mandate         |-> "mandat_sepa",
     social_right            |-> "attestation_caf"]

Codes == {"imagine_r_junior", "imagine_r_scolaire", "imagine_r_etudiant", "navigo_annuel",
          "navigo_annuel_senior", "navigo_liberte_plus", "tst", "amethyste"}

mapProductTypeToContractCode(product) ==
    CASE product = "navigo_senior" -> "navigo_annuel_senior"
      [] product = "liberte_plus"  -> "navigo_liberte_plus"
      [] OTHER                     -> product

contractCodeToProductType(code) ==
    CASE code = "navigo_annuel_senior" -> "navigo_senior"
      [] code = "navigo_liberte_plus"  -> "liberte_plus"
      [] code \in Codes \ {"navigo_annuel_senior", "navigo_liberte_plus"} -> code
      [] OTHER                         -> None

\* The slots of the file: none for a code the front end does not know.
requiredDocumentTypes(code) ==
    LET product == contractCodeToProductType(code) IN
    IF product = None THEN {}
    ELSE {DOCUMENT_TO_JUSTIFICATIF[d] : d \in productCatalog[product]}

\* What the recommendation says must be provided.
requiredDocuments(age, a) ==
    productCatalog[Product(age, a)] \cup
        (IF withScholarship(age, a) THEN {"scholarship_certificate"} ELSE {})

\* None is no question, no answer and no product.
ASSUME NoAnswerAssumption ==
    /\ None \notin QuestionId /\ None \notin UNION {Options(q) : q \in QuestionId}
    /\ None \notin DOMAIN productCatalog /\ None \notin Codes

\* The back end's tables, which its gate reads.
BackEnd == INSTANCE Justificatifs WITH
    Handlers <- {}, Files <- {}, Types <- {}, ProductCode <- "tst", Decisions <- {}, Null <- None,
    docs <- <<>>, filed <- {}, verification <- {}, opened <- FALSE, handler <- {},
    vouched <- {}, interrupted <- FALSE

-----------------------------------------------------------------------------
(* The wizard. *)

AdvisorInit ==
    /\ step = 1 /\ who \in Beneficiaries /\ usage = "daily"
    /\ answers = NoAnswer /\ history = <<>> /\ created = None

handleBeneficiaryChange(b) ==
    /\ step = 1
    /\ who' = b /\ answers' = NoAnswer /\ history' = <<>>
    /\ UNCHANGED <<step, usage, created>>

ChooseUsage(u) ==
    /\ step = 3
    /\ usage' = u
    /\ UNCHANGED <<step, who, answers, history, created>>

usageToTravelHabit(u) == IF u = "daily" THEN "daily" ELSE "occasional"

\* The usage answers the first question of the adults, unless it has an answer.
seedAnswersFromUsage ==
    IF CurrentProfile[who] \in Adults /\ answers["travel_habit"] = None
    THEN [answers EXCEPT !["travel_habit"] = usageToTravelHabit(usage)]
    ELSE answers

goNext ==
    /\ step < 5
    /\ step = 4 => canRecommend(Age[who], answers)
    /\ step' = step + 1
    /\ IF step = 3 THEN answers' = seedAnswersFromUsage /\ history' = <<>>
                   ELSE UNCHANGED <<answers, history>>
    /\ UNCHANGED <<who, usage, created>>

applyAdvisorAnswer(q, v) ==
    [r \in QuestionId |->
        CASE r = q -> v
          [] r = "has_scholarship" /\ q = "is_enrolled" /\ v = "no" -> None
          [] r = "social_right_level" /\ q = "travel_habit" /\ v # "social_rights" -> None
          [] r = "liberte_support" /\ q = "travel_habit" /\ v # "occasional" -> None
          [] OTHER -> answers[r]]

\* An answer that replaces another is not a new question of the history.
handleAdvisorAnswer(v) ==
    LET q == NextQuestion(Age[who], answers) IN
    /\ step = 4 /\ q # None /\ v \in Options(q)
    /\ answers' = applyAdvisorAnswer(q, v)
    /\ history' = IF answers[q] = None THEN Append(history, q) ELSE history
    /\ UNCHANGED <<step, who, usage, created>>

clearAdvisorAnswer(q) ==
    CASE q = "is_enrolled"  -> {"is_enrolled", "has_scholarship"}
      [] q = "travel_habit" -> {"travel_habit", "social_right_level", "liberte_support"}
      [] OTHER              -> {q}

\* Mutant: the answers are kept when the user leaves the questions.
BackKeepsAnswers == answers

AnswersLeft == NoAnswer

\* From the fourth step one question back, then to the usage; the fifth has no way back.
goBack ==
    /\ step \in 2 .. 4
    /\ IF step = 4 /\ history # <<>>
       THEN /\ history' = Front(history)
            /\ answers' = [r \in QuestionId |->
                    IF r \in clearAdvisorAnswer(Last(history)) THEN None ELSE answers[r]]
            /\ UNCHANGED step
       ELSE /\ step' = step - 1
            /\ IF step = 4 THEN answers' = AnswersLeft /\ history' = <<>>
                           ELSE UNCHANGED <<answers, history>>
    /\ UNCHANGED <<who, usage, created>>

\* A request that fails leaves the page as it was.
handleCreateContract ==
    /\ step = 5
    /\ step' = 6
    /\ created' = mapProductTypeToContractCode(Product(Age[who], answers))
    /\ UNCHANGED <<who, usage, answers, history>>

AdvisorNext ==
    \/ \E b \in Beneficiaries : handleBeneficiaryChange(b)
    \/ \E u \in {"daily", "occasional", "pay-per-use"} : ChooseUsage(u)
    \/ goNext \/ goBack \/ handleCreateContract
    \/ \E v \in UNION {Options(q) : q \in QuestionId} : handleAdvisorAnswer(v)

AdvisorSpec == AdvisorInit /\ [][AdvisorNext]_advisorVars

-----------------------------------------------------------------------------
(* Properties *)

AdvisorTypeOK ==
    /\ step \in 1 .. 6 /\ who \in Beneficiaries /\ usage \in {"daily", "occasional", "pay-per-use"}
    /\ answers \in [QuestionId -> {None} \cup UNION {Options(q) : q \in QuestionId}]
    /\ history \in Seq(QuestionId)
    /\ created \in Codes \cup {None}

\* "Question précédente" asks the question it takes back, whatever later answers had been
\* derived from it.
BackAsksAgain ==
    [][step = 4 /\ step' = 4 /\ Len(history') < Len(history)
        => NextQuestion(Age[who'], answers') = Last(history)]_advisorVars

\* The recommendation rests on nothing but the answers that the user can still take back
\* and the usage as it is selected: none of another person, none withdrawn.
AnswersOwned ==
    \A q \in QuestionId : answers[q] # None =>
        \/ q \in ToSet(history)
        \/ /\ q = "travel_habit" /\ CurrentProfile[who] \in Adults
           /\ answers[q] = usageToTravelHabit(usage)

\* The documents that the answers call for and no file asks for.
NeverAsked == {"scholarship_certificate"}

\* The contract is created once the answers of the person selected leave nothing to ask, and
\* is of the product they lead to.  Its page asks for the documents these answers call for,
\* but the certificate of a scholarship; the gate of the back end waits for the same ones,
\* and there is one at least, without which a file is never ready to sign.
FileAsksForAnswers ==
    created # None =>
        /\ canRecommend(Age[who], answers)
        /\ created = mapProductTypeToContractCode(Product(Age[who], answers))
        /\ requiredDocumentTypes(created) =
              {DOCUMENT_TO_JUSTIFICATIF[d] : d \in requiredDocuments(Age[who], answers) \ NeverAsked}
        /\ requiredDocumentTypes(created) = BackEnd!RequiredJustificatifTypes(created)
        /\ requiredDocumentTypes(created) # {}

\* The file a subscription ends with asks for what the answers, as they stand and as
\* the user can still take them back, decided; a scholarship excepted.
FileFollowsAnswers == [](AnswersOwned /\ FileAsksForAnswers) /\ BackAsksAgain
=============================================================================
