------------------------------ MODULE ServiceNames ------------------------------
(* What several modules of the sign-in, the accounts, the pages and the services name *)
(* alike, so that one module can be composed of them.                                 *)
CONSTANTS
    Persons,    \* who may sit at a keyboard, by name and birth date
    Null,       \* no person, no page, no file, no session
    None        \* no signature request, no answer, no product
=============================================================================
