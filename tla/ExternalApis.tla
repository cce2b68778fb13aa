---------------------------- MODULE ExternalApis ----------------------------
(***************************************************************************)
(* The look-ups the back end offers beside its own data: rights that an    *)
(* administration would confirm (a mock of API Particulier), the state of  *)
(* the carrier's own systems (a mock), and four public registries, each    *)
(* served by a mock or by a live service chosen when the process starts.   *)
(*                                                                         *)
(* A request is answered at once and leaves nothing behind: the variables  *)
(* keep the last right asked for and the last address and commune given,   *)
(* which is what a caller can compare.                                     *)
(***************************************************************************)
EXTENDS Integers, FiniteSets

CONSTANT Departments   \* departments the live registries answer about

Absent == "absent"

ASSUME DepartmentsAssumption == Absent \notin Departments

CheckTypes == {"school_student", "student", "student_scholarship",
               "family_quotient", "social_rights", "tax"}
Scenarios  == {"confirmed", "unavailable", "expired", "rejected", "provisional"}

InternalTypes     == {"support", "contract", "payment", "debt"}
InternalScenarios == {"contract_active", "debt_active", "no_debt", "payment_failure",
                      "payment_success", "support_compatible", "support_expired"}

\* What a request tells of a person; "other" is any value the mock has no entry
\* for, "404..." and "503..." an allocation number with that prefix.
Allocations == {Absent, "2345678", "4400100", "404...", "503...", "other"}
PostalCodes == {Absent, "75001", "44100", "other"}
Ines        == {Absent, "1234567890A", "1234567890B", "1234567404G", "other"}
Names       == {Absent, "pagnol marcel", "martin justine", "martin jerome", "other"}
BirthDates  == {Absent, "2000-01-20", "other"}
FiscalIds   == {Absent, "1234567890123", "other"}

Unsaid == [allocation |-> Absent, postal |-> Absent, ine |-> Absent,
           name |-> Absent, born |-> Absent, fiscal |-> Absent]

\* The particulars the mock reads for a type of check.
Particulars(type) ==
    CASE type = "family_quotient" ->
           {[Unsaid EXCEPT !.allocation = a, !.postal = p] : a \in Allocations, p \in PostalCodes}
      [] type \in {"student", "student_scholarship"} ->
           {[Unsaid EXCEPT !.ine = i, !.name = n] : i \in Ines, n \in Names}
      [] type = "school_student" ->
           {[Unsaid EXCEPT !.name = n, !.born = b] : n \in Names, b \in BirthDates}
      [] type = "tax" -> {[Unsaid EXCEPT !.fiscal = f] : f \in FiscalIds}
      [] OTHER -> {Unsaid}

-----------------------------------------------------------------------------
(* Answers.                                                                *)

Verdict(status, reason, action, dated) ==
    [status |-> status, reason |-> reason, action |-> action, dated |-> dated]

Confirmed(subject) ==
    Verdict("verified", <<subject, "confirmed">>, "auto_validate_right", TRUE)
Refused(reason) == Verdict("rejected", reason, "manual_review", FALSE)
Expired(subject) ==
    Verdict("expired", <<subject, "expired">>, "request_updated_document", FALSE)
CertificateNeeded(subject) ==
    Verdict("needs_document", <<subject, "unavailable">>, "request_manual_certificate", FALSE)

\* The entries the mock holds, by type: each a guard on what is told and the
\* verdict it gives, in the order they are tried.
FamilyEntry(in) ==
    CASE <<in.allocation, in.postal>> \in {<<"2345678", "75001">>, <<"4400100", "44100">>} ->
           {Confirmed("family_quotient")}
      [] in.allocation = "404..." -> {Refused(<<"family_quotient", "rejected">>)}
      [] in.allocation = "503..." -> {CertificateNeeded("family_quotient")}
      [] OTHER -> {}

StudentEntry(in) ==
    CASE in.ine = "1234567890A" -> {Confirmed("student_scholarship")}
      [] in.ine = "1234567890B" -> {Expired("student_scholarship")}
      [] in.ine = "1234567404G" -> {Refused(<<"student_status", "unavailable">>)}
      [] in.ine \notin {"1234567890A", "1234567890B", "1234567404G"}
           /\ in.name = "pagnol marcel" -> {Confirmed("student_scholarship")}
      [] OTHER -> {}

SchoolEntry(in) ==
    CASE in.name = "martin justine" /\ in.born = "2000-01-20" -> {Confirmed("school_student")}
      [] in.name = "martin jerome" -> {Refused(<<"school_student", "rejected">>)}
      [] OTHER -> {}

TaxEntry(in) == IF in.fiscal = "1234567890123" THEN {Confirmed("tax")} ELSE {}

\* What the entries say of the person: at most one verdict.
ParamMatch(type, in) ==
    CASE type = "family_quotient" -> FamilyEntry(in)
      [] type \in {"student", "student_scholarship"} -> StudentEntry(in)
      [] type = "school_student" -> SchoolEntry(in)
      [] type = "tax" -> TaxEntry(in)
      [] OTHER -> {}

ConfirmedByType(type) ==
    CASE type = "tax"     -> Verdict("manual_review", <<"tax", "mock_only">>, "manual_review", FALSE)
      [] type = "student" -> Confirmed("student_status")
      [] OTHER            -> Confirmed(type)

UnavailableSubject(type) == IF type = "student" THEN "student_status" ELSE type

\* An entry about the person wins over the scenario; an absent scenario is
\* "confirmed", a scenario the mock does not know is refused.
Check(type, scenario, in) ==
    LET asked == IF scenario = Absent THEN "confirmed" ELSE scenario
    IN  CASE ParamMatch(type, in) # {} -> CHOOSE v \in ParamMatch(type, in) : TRUE
          [] ParamMatch(type, in) = {} /\ asked \notin Scenarios ->
               Refused(<<"unknown", "mock_scenario">>)
          [] ParamMatch(type, in) = {} /\ asked = "unavailable" ->
               CertificateNeeded(UnavailableSubject(type))
          [] ParamMatch(type, in) = {} /\ asked = "expired"  -> Expired(type)
          [] ParamMatch(type, in) = {} /\ asked = "rejected" -> Refused(<<type, "rejected">>)
          [] ParamMatch(type, in) = {} /\ asked = "provisional" ->
               Verdict("manual_review", <<type, "provisional">>, "manual_review", TRUE)
          [] ParamMatch(type, in) = {} /\ asked = "confirmed" -> ConfirmedByType(type)

DefaultScenario ==
    [support |-> "support_compatible", payment |-> "payment_success",
     debt |-> "no_debt", contract |-> "contract_active"]

\* The carrier's own systems.
CheckInternal(type, scenario) ==
    LET asked == IF scenario = Absent THEN DefaultScenario[type] ELSE scenario
    IN  CASE asked \notin InternalScenarios -> Refused(<<"unknown", "mock_scenario">>)
          [] asked = "debt_active" ->
               Verdict("not_verified", <<"debt", "active">>, "regularize_debt", FALSE)
          [] asked = "support_expired" ->
               Verdict("expired", <<"support", "expired">>, "replace_support", FALSE)
          [] asked = "payment_failure" ->
               Verdict("not_verified", <<"payment", "failure">>, "retry_payment", FALSE)
          [] OTHER -> Verdict("verified", <<asked>>, "continue_workflow", FALSE)

-----------------------------------------------------------------------------
VARIABLES
    mode,      \* mode[r]: "mock" or "live", read from the configuration at start
    right,     \* the last check of a right: what was asked, what was answered
    address,   \* the last address answered
    commune    \* the last commune answered

apisVars == <<mode, right, address, commune>>

Registries == {"address", "geo"}
Nowhere    == [department |-> Absent, within |-> FALSE]
NoRight    == [type |-> Absent, scenario |-> Absent, person |-> Unsaid,
               verdict |-> Refused(<<Absent>>)]

ApisInit ==
    /\ mode \in [Registries -> {"mock", "live"}]
    /\ right = NoRight
    /\ address = Nowhere
    /\ commune = Nowhere

\* Nothing is kept from one call to the next: one check and one answer of each
\* registry stand for any number (a bound).
CheckEligibility(type, scenario, in) ==
    /\ right = NoRight
    /\ right' = [type |-> type, scenario |-> scenario, person |-> in,
                 verdict |-> Check(type, scenario, in)]
    /\ UNCHANGED <<mode, address, commune>>

\* The request has no field for a scenario and the validation pipe refuses a
\* body with one: over HTTP only the default of the type is ever asked.
CheckInternalMobility(type) ==
    /\ right = NoRight
    /\ right' = [type |-> type, scenario |-> Absent, person |-> Unsaid,
                 verdict |-> CheckInternal(type, Absent)]
    /\ UNCHANGED <<mode, address, commune>>

IleDeFrance == {"75", "77", "78", "91", "92", "93", "94", "95"}

\* The departments of the two entries each mock registry holds.
MockDepartments == {"75", "69"}

\* The entries of a mock say themselves whether they lie in the territory.
MockAddress(d) == [department |-> d, within |-> d = "75"]
MockCommune(d) == [department |-> d, within |-> d = "75"]

\* Mutant: an address without a postal code counts as inside.
LiveAddress_NoCodeInside(d) == [department |-> d, within |-> d \in IleDeFrance \cup {Absent}]

\* The live geocoder gives a postal code, whose first two figures are the
\* department, or none.
LiveAddress(d) == [department |-> d, within |-> d \in IleDeFrance]

\* The live registry of communes gives the department, or none.
LiveCommune(d) == [department |-> d, within |-> d \in IleDeFrance]

\* A live service may also refuse or not answer in time, a search may find
\* nothing: the caller then gets an error or no entry, and keeps what it had.
SearchAddresses(d) ==
    /\ address = Nowhere
    /\ \/ mode["address"] = "mock" /\ d \in MockDepartments /\ address' = MockAddress(d)
       \/ mode["address"] = "live" /\ address' = LiveAddress(d)
    /\ UNCHANGED <<mode, right, commune>>

FindCommunes(d) ==
    /\ commune = Nowhere
    /\ \/ mode["geo"] = "mock" /\ d \in MockDepartments /\ commune' = MockCommune(d)
       \/ mode["geo"] = "live" /\ commune' = LiveCommune(d)
    /\ UNCHANGED <<mode, right, address>>

ApisNext ==
    \/ \E type \in CheckTypes, scenario \in Scenarios \cup {Absent, "unheard_of"} :
          \E in \in Particulars(type) : CheckEligibility(type, scenario, in)
    \/ \E type \in InternalTypes : CheckInternalMobility(type)
    \/ \E d \in Departments \cup {Absent} : SearchAddresses(d) \/ FindCommunes(d)

ApisSpec == ApisInit /\ [][ApisNext]_apisVars

-----------------------------------------------------------------------------
(* Properties.                                                             *)

ApisTypeOK ==
    /\ mode \in [Registries -> {"mock", "live"}]
    /\ right.type \in CheckTypes \cup InternalTypes \cup {Absent}
    /\ right.verdict.status \in {"verified", "not_verified", "needs_document",
                                 "manual_review", "expired", "rejected"}
    /\ {address.department, commune.department} \subseteq
          Departments \cup MockDepartments \cup {Absent}
    /\ {address.within, commune.within} \subseteq BOOLEAN

Automatic(r) == r.verdict.action = "auto_validate_right"

\* A scenario the mock does not know never validates a right: whoever is validated
\* without a human under an unknown scenario is one of the mock's own entries, and so
\* is validated under every other scenario, the refusals included (the entries are
\* tried before the scenario, an unknown scenario is refused before any other is read).
EntitledWhateverScenario ==
    right.scenario = "unheard_of" /\ Automatic(right) =>
        \A scenario \in Scenarios \cup {Absent} :
            Automatic([verdict |-> Check(right.type, scenario, right.person)])

\* An address and a commune of the same department are told to lie in the same
\* territory, whichever of the two registries is a mock: the geocoder goes by
\* the postal code, the registry of communes by the department's number, the
\* mocks by what their entries say, and all must agree.
TerritoryAgrees ==
    address.department = commune.department => address.within = commune.within

\* Mock and live answers tell the same story, whichever registry gives which.
AnswersCoherent == TerritoryAgrees /\ EntitledWhateverScenario
=============================================================================
