------------------------------ MODULE AuthForms ------------------------------
(***************************************************************************)
(* The forms of the Login and Signup screens: what each field holds,       *)
(* whether it is flagged with its error message, and what a submission     *)
(* does before the first call of the store.  What follows that call is     *)
(* AuthSession's.  A name counts by its length only.                       *)
(***************************************************************************)
EXTENDS Integers

CONSTANTS
    EmailText, ValidEmail,      \* what may be typed; what EMAIL_VALIDATION matches
    PasswordText, Empty,        \* Empty: nothing typed
    MaxNameLength               \* bound: length of a typed name

ASSUME FormsAssumption ==
    /\ ValidEmail \subseteq EmailText
    /\ Empty \in PasswordText /\ Empty \in EmailText \ ValidEmail
    /\ MaxNameLength \in Nat

VARIABLES
    screen,                 \* "LOGIN" or "SIGNUP"
    email, password, name,  \* [val, isValid]; Login has no name field
    sent                    \* values of the submissions that went on to the store

vars == <<screen, email, password, name, sent>>

Typed(val) == [val |-> val, isValid |-> TRUE]

FreshFields ==
    /\ email' = Typed(Empty) /\ password' = Typed(Empty) /\ name' = Typed(0)

Init ==
    /\ screen = "LOGIN"
    /\ email = Typed(Empty) /\ password = Typed(Empty) /\ name = Typed(0)
    /\ sent = {}

-----------------------------------------------------------------------------

ValidPassword(val) == val # Empty
ValidName(length) == length >= 3

\* handleValidation: the same value, flagged when it does not pass.
EmailValidation == [val |-> email.val, isValid |-> email.val \in ValidEmail]
PassValidation == [val |-> password.val, isValid |-> ValidPassword(password.val)]
NameValidation == [val |-> name.val, isValid |-> ValidName(name.val)]

\* Mutant: retyping keeps the flag.
ChangeEmailFlagged(text) ==
    email' = [email EXCEPT !.val = text] /\ UNCHANGED <<screen, password, name, sent>>

\* onChangeText: the text typed last, not flagged.
ChangeEmail(text) ==
    email' = Typed(text) /\ UNCHANGED <<screen, password, name, sent>>

ChangePassword(text) ==
    password' = Typed(text) /\ UNCHANGED <<screen, email, name, sent>>

ChangeName(length) ==
    /\ screen = "SIGNUP"
    /\ name' = Typed(length) /\ UNCHANGED <<screen, email, password, sent>>

Form == [screen |-> screen, email |-> email.val,
         password |-> password.val, name |-> name.val]

\* Mutant: a submission stops only when both fields are refused.
SubmitLoginEither ==
    /\ screen = "LOGIN"
    /\ IF ~EmailValidation.isValid /\ ~PassValidation.isValid
       THEN /\ email' = EmailValidation /\ password' = PassValidation
            /\ UNCHANGED sent
       ELSE /\ sent' = sent \cup {Form}
            /\ UNCHANGED <<email, password>>
    /\ UNCHANGED <<screen, name>>

\* The early return flags the fields; a submission that passes leaves them.
SubmitLogin ==
    /\ screen = "LOGIN"
    /\ IF ~EmailValidation.isValid \/ ~PassValidation.isValid
       THEN /\ email' = EmailValidation /\ password' = PassValidation
            /\ UNCHANGED sent
       ELSE /\ sent' = sent \cup {Form}
            /\ UNCHANGED <<email, password>>
    /\ UNCHANGED <<screen, name>>

\* Signup tests `!nameValidation`, which is false of any validation result.
SubmitSignup ==
    /\ screen = "SIGNUP"
    /\ IF ~EmailValidation.isValid \/ ~PassValidation.isValid
       THEN /\ email' = EmailValidation /\ password' = PassValidation
            /\ name' = NameValidation
            /\ UNCHANGED sent
       ELSE /\ sent' = sent \cup {Form}
            /\ UNCHANGED <<email, password, name>>
    /\ UNCHANGED screen

\* The link under the form mounts the other screen.
FollowLink ==
    /\ screen' = IF screen = "LOGIN" THEN "SIGNUP" ELSE "LOGIN"
    /\ FreshFields
    /\ UNCHANGED sent

Next ==
    \/ \E text \in EmailText : ChangeEmail(text)
    \/ \E text \in PasswordText : ChangePassword(text)
    \/ \E length \in 0..MaxNameLength : ChangeName(length)
    \/ SubmitLogin \/ SubmitSignup
    \/ FollowLink

Spec == Init /\ [][Next]_vars

-----------------------------------------------------------------------------

\* A flagged field is a refused one: the message never outlives the text it
\* is about, whatever is retyped and resubmitted in between.
FlaggedIsRefused ==
    /\ email.isValid \/ email.val \notin ValidEmail
    /\ password.isValid \/ ~ValidPassword(password.val)
    /\ name.isValid \/ ~ValidName(name.val)

\* Nothing reaches the store from a form whose address or password is refused,
\* on either screen.
SentIsComplete ==
    \A f \in sent : f.email \in ValidEmail /\ ValidPassword(f.password)

\* "Please enter valid name" (Signup.js): a name shorter than three characters
\* is refused.
NameIsEnforced == \A f \in sent : f.screen = "SIGNUP" => ValidName(f.name)

=============================================================================
