--------------------------- MODULE AuthFormsProofs ---------------------------
(***************************************************************************)
(* Proofs about the forms, for any texts and any length of a name.         *)
(***************************************************************************)
EXTENDS AuthForms, TLAPS

\* handleValidation flags exactly the values that do not pass.
LEMMA Validations ==
    /\ EmailValidation.isValid \/ EmailValidation.val \notin ValidEmail
    /\ PassValidation.isValid \/ ~ValidPassword(PassValidation.val)
    /\ NameValidation.isValid \/ ~ValidName(NameValidation.val)
  <1>1. EmailValidation.isValid \/ EmailValidation.val \notin ValidEmail
    BY Zenon DEF EmailValidation
  <1>2. PassValidation.isValid \/ ~ValidPassword(PassValidation.val)
    BY Zenon DEF PassValidation
  <1>3. NameValidation.isValid \/ ~ValidName(NameValidation.val)
    BY Zenon DEF NameValidation
  <1> QED BY <1>1, <1>2, <1>3

\* The message of a field is never shown beside a text that passes, however the
\* user retypes, resubmits and changes the form (handleValidation and the
\* onChangeText handlers of Login.js and Signup.js).
THEOREM FlagsAreRight == Spec => []FlaggedIsRefused
  <1>1. Init => FlaggedIsRefused
    BY DEF Init, FlaggedIsRefused, Typed
  <1>2. FlaggedIsRefused /\ [Next]_vars => FlaggedIsRefused'
    <2> SUFFICES ASSUME FlaggedIsRefused, [Next]_vars
                 PROVE  FlaggedIsRefused'
      OBVIOUS
    <2>1. ASSUME NEW text \in EmailText, ChangeEmail(text)
          PROVE  FlaggedIsRefused'
      BY <2>1 DEF ChangeEmail, Typed, FlaggedIsRefused
    <2>2. ASSUME NEW text \in PasswordText, ChangePassword(text)
          PROVE  FlaggedIsRefused'
      BY <2>2 DEF ChangePassword, Typed, FlaggedIsRefused
    <2>3. ASSUME NEW length \in 0..MaxNameLength, ChangeName(length)
          PROVE  FlaggedIsRefused'
      BY <2>3 DEF ChangeName, Typed, FlaggedIsRefused
    <2>4. CASE SubmitLogin
      <3>1. /\ email' = email \/ email' = EmailValidation
            /\ password' = password \/ password' = PassValidation
            /\ name' = name
        BY <2>4 DEF SubmitLogin
      <3> QED BY <3>1, Validations DEF FlaggedIsRefused
    <2>5. CASE SubmitSignup
      <3>1. /\ email' = email \/ email' = EmailValidation
            /\ password' = password \/ password' = PassValidation
            /\ name' = name \/ name' = NameValidation
        BY <2>5 DEF SubmitSignup
      <3> QED BY <3>1, Validations DEF FlaggedIsRefused
    <2>6. CASE FollowLink
      BY <2>6 DEF FollowLink, FreshFields, Typed, FlaggedIsRefused
    <2>7. CASE UNCHANGED vars
      BY <2>7 DEF vars, FlaggedIsRefused
    <2> QED BY <2>1, <2>2, <2>3, <2>4, <2>5, <2>6, <2>7 DEF Next
  <1> QED BY <1>1, <1>2, PTL DEF Spec

\* No submission reaches the store with an address or a password that is
\* refused, whatever was flagged before (handleSubmit of Login.js and Signup.js).
THEOREM SubmissionsAreComplete == Spec => []SentIsComplete
  <1>1. Init => SentIsComplete
    BY DEF Init, SentIsComplete
  <1>2. SentIsComplete /\ [Next]_vars => SentIsComplete'
    <2> SUFFICES ASSUME SentIsComplete, [Next]_vars
                 PROVE  SentIsComplete'
      OBVIOUS
    <2>1. \/ sent' = sent
          \/ /\ EmailValidation.isValid /\ PassValidation.isValid
             /\ sent' = sent \cup {Form}
      BY DEF Next, vars, ChangeEmail, ChangePassword, ChangeName, SubmitLogin,
             SubmitSignup, FollowLink
    <2>2. EmailValidation.isValid /\ PassValidation.isValid =>
            Form.email \in ValidEmail /\ ValidPassword(Form.password)
      BY DEF Form, EmailValidation, PassValidation
    <2> QED BY <2>1, <2>2 DEF SentIsComplete
  <1> QED BY <1>1, <1>2, PTL DEF Spec

=============================================================================
