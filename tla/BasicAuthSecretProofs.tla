------------------------ MODULE BasicAuthSecretProofs ------------------------
(***************************************************************************)
(* Theorems about BasicAuthSecret, for any number of births, passwords,    *)
(* edits and faults.                                                       *)
(***************************************************************************)
EXTENDS BasicAuthSecret, TLAPS

----------------------------------------------------------------------------
(* The inductive invariant.                                                *)

\* What a pass has in its hands.  A Secret is only looked for on behalf of a route
\* that asks for protection, and one that does is not applied without an answer.
PassLocals ==
    /\ pc \in {"get", "create"} => view # None /\ view.protected
    /\ pc \in {"idle", "get", "create"} => creds = None
    /\ creds # None => view # None /\ view.protected
    /\ pc \in {"apply", "prune"} /\ view # None /\ view.protected => creds # None
    /\ dryRun => pc # "create"

\* A password was made for the owner of the Secret it is in, and what a pass took
\* from a Secret was made for the route it has read.
MadeForOwner ==
    /\ secret # None /\ secret.password # None => secret.password.for = secret.owner
    /\ creds \in Passwords => creds.for = view.uid

RowPassword(p) == row # None /\ row.password = p

\* A password that is published, or about to be, is in the Secret, or somebody took
\* it from there; and while another is about to replace it, the latter.
KeptOrRetired ==
    \A p \in Passwords :
        /\ RowPassword(p) \/ creds = p => Holds(secret, p) \/ p \in retired
        /\ RowPassword(p) /\ creds \in Passwords \ {p} => p \in retired

Inv == TypeOK /\ PassLocals /\ MadeForOwner /\ OwnPassword /\ KeptOrRetired

----------------------------------------------------------------------------
(* Type correctness.                                                       *)

\* New passwords are passwords.
LEMMA NewPasswordsType ==
    ASSUME NEW uid \in Uids \cup {0}, NEW p \in NewPasswords(uid)
    PROVE  /\ p \in Passwords /\ p.for = uid
           /\ ~ Holds(secret, p) /\ ~ Holds(row, p) /\ p \notin retired
  BY DEF NewPasswords, Passwords

\* It holds before the first birth.
LEMMA InitInv == Init => Inv
  BY SecretAssumption
  DEF Init, Inv, TypeOK, PassLocals, MadeForOwner, OwnPassword, KeptOrRetired, RowPassword

\* What a pass finds in the Secret, and what it makes a row of.
LEMMA CredentialsType ==
    ASSUME TypeOK, secret # None
    PROVE  Credentials \in Passwords \cup {Refused} /\ Credentials # None
  BY SecretAssumption DEF Credentials, TypeOK, Secrets

\* What an apply stores is a row.
LEMMA NewRowType ==
    ASSUME TypeOK, PassLocals, Published
    PROVE  NewRow \in RowsOf
  BY SecretAssumption DEF TypeOK, PassLocals, Published, NewRow, RowsOf, Routes

\* Every step keeps the types.
LEMMA NextType == TypeOK /\ PassLocals /\ [Next]_vars => TypeOK'
  <1> SUFFICES ASSUME TypeOK, PassLocals, [Next]_vars PROVE TypeOK'
    OBVIOUS
  <1> USE SecretAssumption DEF passVars
  <1>1. CASE Read
    BY <1>1 DEF Read, TypeOK
  <1>2. CASE Get
    <2>1. secret # None => Credentials \in Passwords \cup {Refused}
      BY CredentialsType
    <2>2. QED
      BY <1>2, <2>1 DEF Get, Refuse, TypeOK
  <1>3. CASE Create
    <2>1. view \in Routes /\ view.uid \in Uids
      BY <1>3 DEF Create, TypeOK, PassLocals, Routes
    <2>2. \A p \in NewPasswords(view.uid) : p \in Passwords
      BY <2>1, NewPasswordsType
    <2>3. secret' \in Secrets \cup {None} /\ creds' \in Passwords \cup {None, Refused}
      BY <1>3, <2>1, <2>2 DEF Create, Abort, TypeOK, Secrets
    <2>4. QED
      BY <1>3, <2>3 DEF Create, Abort, TypeOK
  <1>4. CASE Apply
    BY <1>4, NewRowType DEF Apply, TypeOK
  <1>5. CASE Prune
    BY <1>5 DEF Prune, Abort, TypeOK
  <1>6. CASE RequestFails
    <2>1. view \in Routes /\ view.uid \in Uids
      BY <1>6 DEF RequestFails, TypeOK, PassLocals, Routes
    <2>2. \A p \in NewPasswords(view.uid) : p \in Passwords
      BY <2>1, NewPasswordsType
    <2>3. secret' \in Secrets \cup {None}
      BY <1>6, <2>1, <2>2 DEF RequestFails, TypeOK, Secrets
    <2>4. QED
      BY <1>6, <2>3 DEF RequestFails, Abort, TypeOK
  <1>7. CASE ApplyFails
    BY <1>7, NewRowType DEF ApplyFails, Abort, TypeOK
  <1>8. CASE Crash
    BY <1>8 DEF Crash, Abort, TypeOK
  <1>9. CASE CreateRoute
    BY <1>9 DEF CreateRoute, Edited, TypeOK, Routes, Uids
  <1>10. CASE Annotate
    <2>1. route' \in Routes
      BY <1>10 DEF Annotate, TypeOK, Routes
    <2>2. QED
      BY <1>10, <2>1 DEF Annotate, Edited, TypeOK
  <1>11. CASE DeleteRoute
    BY <1>11 DEF DeleteRoute, Edited, TypeOK
  <1>12. CASE EditSecret
    <2>1. \A p \in NewPasswords(0) : p \in Passwords
      BY NewPasswordsType
    <2>2. secret' \in Secrets \cup {None}
      BY <1>12, <2>1 DEF EditSecret, TypeOK, Secrets
    <2>3. QED
      BY <1>12, <2>2 DEF EditSecret, Retire, Edited, TypeOK
  <1>13. CASE Deliver
    BY <1>13 DEF Deliver, TypeOK
  <1>14. CASE CollectSecret
    BY <1>14 DEF CollectSecret, Retire, TypeOK
  <1>15. CASE UNCHANGED vars
    BY <1>15 DEF vars, TypeOK
  <1>16. QED
    BY <1>1, <1>2, <1>3, <1>4, <1>5, <1>6, <1>7, <1>8, <1>9, <1>10, <1>11, <1>12, <1>13,
       <1>14, <1>15 DEF Next, Pass

----------------------------------------------------------------------------
(* The other parts of the invariant.                                       *)

\* Steps of others leave a pass alone.
Outside == \/ CreateRoute \/ Annotate \/ DeleteRoute \/ EditSecret \/ Deliver
           \/ CollectSecret \/ UNCHANGED vars

\* Every step keeps what a pass holds in line with where it is.
LEMMA NextLocals == TypeOK /\ PassLocals /\ [Next]_vars => PassLocals'
  <1> SUFFICES ASSUME TypeOK, PassLocals, [Next]_vars PROVE PassLocals'
    OBVIOUS
  <1> USE DEF PassLocals
  <1>1. CASE Outside
    BY <1>1 DEF Outside, CreateRoute, Annotate, DeleteRoute, EditSecret, Deliver,
                CollectSecret, vars, passVars
  <1>2. CASE Read
    BY <1>2 DEF Read
  <1>3. CASE Get
    BY <1>3, CredentialsType, SecretAssumption DEF Get, Refuse
  <1>4. CASE Create
    <2>1. \A p \in NewPasswords(view.uid) : p # None
      <3>1. view.uid \in Uids
        BY <1>4 DEF Create, TypeOK, Routes
      <3>2. QED
        BY <3>1, NewPasswordsType, SecretAssumption
    <2>2. QED
      BY <1>4, <2>1 DEF Create, Abort
  <1>5. CASE Apply
    BY <1>5 DEF Apply
  <1>6. CASE Prune \/ RequestFails \/ ApplyFails \/ Crash
    BY <1>6 DEF Prune, RequestFails, ApplyFails, Crash, Abort
  <1>7. QED
    BY <1>1, <1>2, <1>3, <1>4, <1>5, <1>6 DEF Next, Pass, Outside

\* Every step leaves passwords with the birth they were made for.
LEMMA NextMade ==
    TypeOK /\ PassLocals /\ MadeForOwner /\ [Next]_vars => MadeForOwner'
  <1> SUFFICES ASSUME TypeOK, PassLocals, MadeForOwner, [Next]_vars PROVE MadeForOwner'
    OBVIOUS
  <1> USE DEF MadeForOwner
  <1>1. None \notin Passwords /\ Refused \notin Passwords
    BY SecretAssumption
  <1>2. CASE UNCHANGED <<secret, view, creds>>
    BY <1>2
  <1>3. CASE Read \/ Prune \/ ApplyFails \/ Crash
    BY <1>1, <1>3 DEF Read, Prune, ApplyFails, Crash, Abort
  <1>4. CASE Get
    BY <1>1, <1>4 DEF Get, Refuse, Credentials, OwnedBy, PassLocals
  <1>5. CASE Create \/ RequestFails
    <2>1. view.uid \in Uids
      BY <1>5 DEF Create, RequestFails, TypeOK, PassLocals, Routes
    <2>2. \A p \in NewPasswords(view.uid) : p.for = view.uid
      BY <2>1, NewPasswordsType
    <2>3. QED
      BY <1>1, <1>5, <2>2 DEF Create, RequestFails, Abort
  <1>6. CASE EditSecret
    <2>1. \A p \in NewPasswords(0) : p.for = 0
      BY NewPasswordsType
    <2>2. QED
      BY <1>6, <2>1 DEF EditSecret, passVars, TypeOK, Secrets
  <1>7. CASE CollectSecret
    BY <1>7 DEF CollectSecret, passVars
  <1>8. CASE Apply \/ CreateRoute \/ Annotate \/ DeleteRoute \/ Deliver \/ UNCHANGED vars
    BY <1>2, <1>8 DEF Apply, CreateRoute, Annotate, DeleteRoute, Deliver, vars, passVars
  <1>9. QED
    BY <1>3, <1>4, <1>5, <1>6, <1>7, <1>8 DEF Next, Pass

\* Every step leaves the published password with the birth it is published for.
LEMMA NextOwn ==
    TypeOK /\ PassLocals /\ MadeForOwner /\ OwnPassword /\ [Next]_vars => OwnPassword'
  <1> SUFFICES ASSUME TypeOK, PassLocals, MadeForOwner, OwnPassword, [Next]_vars
               PROVE  OwnPassword'
    OBVIOUS
  <1>1. row' = row => OwnPassword'
    BY DEF OwnPassword
  <1>2. CASE Apply \/ ApplyFails
    <2>1. Published => NewRow.password = None \/ NewRow.password.for = NewRow.uid
      BY DEF Published, NewRow, PassLocals, MadeForOwner, TypeOK
    <2>2. row' = row \/ (row' = NewRow /\ Published)
      BY <1>2 DEF Apply, ApplyFails
    <2>3. QED
      BY <1>1, <2>1, <2>2 DEF OwnPassword
  <1>3. CASE Prune
    BY <1>3 DEF Prune, OwnPassword
  <1>4. QED
    BY <1>1, <1>2, <1>3
    DEF Next, Pass, Read, Get, Create, RequestFails, Crash, CreateRoute, Annotate,
        DeleteRoute, EditSecret, Deliver, CollectSecret, vars

\* Whatever takes a password that counts out of the Secret retires it.
LEMMA NextKept ==
    TypeOK /\ PassLocals /\ KeptOrRetired /\ [Next]_vars => KeptOrRetired'
  <1> SUFFICES ASSUME TypeOK, PassLocals, KeptOrRetired, [Next]_vars PROVE KeptOrRetired'
    OBVIOUS
  <1> USE DEF KeptOrRetired, RowPassword, Holds
  <1>1. None \notin Passwords /\ Refused \notin Passwords
    BY SecretAssumption
  <1>2. CASE UNCHANGED <<secret, row, creds, retired>>
    BY <1>2
  <1>3. CASE Read
    BY <1>1, <1>3 DEF Read
  <1>4. CASE Get
    <2>1. creds' \in Passwords => Holds(secret, creds') /\ secret' = secret
      BY <1>1, <1>4 DEF Get, Refuse, Credentials, PassLocals
    <2>2. UNCHANGED <<secret, row, retired>>
      BY <1>4 DEF Get
    <2>3. QED
      BY <2>1, <2>2
  <1>5. CASE Create
    <2>1. secret = None => \A p \in Passwords : RowPassword(p) => p \in retired
      OBVIOUS
    <2>2. CASE secret = None
      <3>1. view.uid \in Uids
        BY <1>5 DEF Create, TypeOK, PassLocals, Routes
      <3>2. PICK p \in NewPasswords(view.uid) :
                creds' = p /\ secret' = [owner |-> view.uid, password |-> p]
        BY <1>5, <2>2 DEF Create
      <3>3. p \in Passwords
        BY <3>1, NewPasswordsType
      <3>4. secret' \in Secrets
        BY <3>1, <3>2, <3>3 DEF Secrets
      <3>5. Holds(secret', p)
        BY <3>2, <3>4, SecretAssumption
      <3>6. QED
        BY <1>5, <2>1, <2>2, <3>2, <3>5 DEF Create
    <2>3. CASE secret # None
      BY <1>1, <1>5, <2>3 DEF Create, Abort
    <2>4. QED
      BY <2>2, <2>3
  <1>6. CASE RequestFails
    BY <1>1, <1>6 DEF RequestFails, Abort
  <1>7. CASE Apply
    BY <1>1, <1>7 DEF Apply, NewRow
  <1>8. CASE ApplyFails
    BY <1>1, <1>8 DEF ApplyFails, Abort, NewRow
  <1>9. CASE Prune \/ Crash
    BY <1>1, <1>9 DEF Prune, Crash, Abort
  <1>10. CASE EditSecret \/ CollectSecret
    <2>1. UNCHANGED <<row, creds>> /\ Retire
      BY <1>10 DEF EditSecret, CollectSecret, passVars
    <2>2. QED
      BY <2>1 DEF Retire
  <1>11. CASE CreateRoute \/ Annotate \/ DeleteRoute \/ Deliver \/ UNCHANGED vars
    BY <1>2, <1>11 DEF CreateRoute, Annotate, DeleteRoute, Deliver, vars, passVars
  <1>12. QED
    BY <1>3, <1>4, <1>5, <1>6, <1>7, <1>8, <1>9, <1>10, <1>11 DEF Next, Pass

\* Hence all of it holds throughout.
LEMMA Invariance == Spec => []Inv
  <1>1. Inv /\ [Next]_vars => Inv'
    BY NextType, NextLocals, NextMade, NextOwn, NextKept DEF Inv
  <1>2. QED
    BY <1>1, InitInv, PTL DEF Spec

----------------------------------------------------------------------------
(* The theorems.                                                           *)

\* Every variable holds a value of its type.
THEOREM Typing == Spec => []TypeOK
  <1>1. Inv => TypeOK
    BY DEF Inv
  <1>2. QED
    BY <1>1, Invariance, PTL

\* A Secret of something else is refused rather than adopted (basicauth.go:132-134):
\* the published password was generated for the very incarnation of the route that
\* is published, however routes and Secrets are deleted and created again.
THEOREM PasswordIsOwn == Spec => []OwnPassword
  <1>1. Inv => OwnPassword
    BY DEF Inv
  <1>2. QED
    BY <1>1, Invariance, PTL

\* The published password of an incarnation is replaced only once somebody took it
\* from the Secret (basicauth.go:87-89), crashes and lost answers notwithstanding.
THEOREM RotationOnly == Spec => ChangesOnlyByRotation
  <1>1. Inv /\ [Next]_vars =>
          [row # None /\ row' # None /\ row.password # None /\ row'.password # None
           /\ row'.uid = row.uid /\ row'.password # row.password
             => row.password \in retired]_vars
    <2> SUFFICES ASSUME Inv, [Next]_vars,
                        row # None, row' # None, row.password # None, row'.password # None,
                        row'.password # row.password
                 PROVE  row.password \in retired
      OBVIOUS
    <2>1. CASE Apply \/ ApplyFails
      <3>1. row' = NewRow /\ Published
        BY <2>1 DEF Apply, ApplyFails
      <3>2. row'.password = creds /\ creds \in Passwords /\ row.password \in Passwords
        BY <3>1, SecretAssumption
        DEF NewRow, Published, Inv, TypeOK, RowsOf, PassLocals
      <3>3. QED
        BY <3>2 DEF Inv, KeptOrRetired, RowPassword
    <2>2. CASE Prune
      BY <2>2 DEF Prune
    <2>3. QED
      BY <2>1, <2>2
      DEF Next, Pass, Read, Get, Create, RequestFails, Crash, CreateRoute, Annotate,
          DeleteRoute, EditSecret, Deliver, CollectSecret, vars
  <1>2. QED
    BY <1>1, Invariance, PTL DEF Spec, ChangesOnlyByRotation

\* A row without a password belongs to an incarnation that, as read, asked for none
\* (basicauth.go:36-38).
THEOREM NeverOpen == Spec => OpenOnlyWhenAsked
  <1>1. Inv /\ [Next]_vars =>
          [row' # None /\ row' # row /\ row'.password = None => ~ view.protected]_vars
    <2> SUFFICES ASSUME Inv, [Next]_vars, row' # None, row' # row, row'.password = None
                 PROVE  ~ view.protected
      OBVIOUS
    <2>1. CASE Apply \/ ApplyFails
      <3>1. row' = NewRow /\ Published /\ pc = "apply"
        BY <2>1 DEF Apply, ApplyFails
      <3>2. QED
        BY <3>1 DEF NewRow, Published, Inv, PassLocals
    <2>2. CASE Prune
      BY <2>2 DEF Prune
    <2>3. QED
      BY <2>1, <2>2
      DEF Next, Pass, Read, Get, Create, RequestFails, Crash, CreateRoute, Annotate,
          DeleteRoute, EditSecret, Deliver, CollectSecret, vars
  <1>2. QED
    BY <1>1, Invariance, PTL DEF Spec, OpenOnlyWhenAsked

\* A dry run writes no Secret and publishes nothing (README.md:337), also one that
\* follows a controller without the flag which died between two requests.
THEOREM DryRunIsDry == Spec => DryRunWritesNothing
  <1>1. Inv /\ [Next]_vars =>
          [dryRun /\ (Pass \/ RequestFails) => UNCHANGED <<secret, row>>]_vars
    BY DEF Inv, PassLocals, Pass, Read, Get, Create, Apply, Prune, RequestFails
  <1>2. QED
    BY <1>1, Invariance, PTL DEF Spec, DryRunWritesNothing
=============================================================================
