----------------------------- MODULE AccessProofs -----------------------------
(***************************************************************************)
(* Theorems about Access, for any grantees, any annotations a route is     *)
(* created with, any locks of the policy and any number of edits, of       *)
(* changes in the dashboard and of faults.                                 *)
(***************************************************************************)
EXTENDS Access, TLAPS

----------------------------------------------------------------------------
(* Annotations, one by one.                                                *)

\* What an annotation may say, field by field.
LEMMA AnnotationsType ==
    ASSUME NEW a, IsAnnotations(a)
    PROVE  /\ a.visibility \in {None, "private", Bad}
           /\ a.policy \in {None, "policy"}
           /\ a.sso \in {None, "false", Bad}
           /\ a.roles \in Lists /\ a.users \in Lists
           /\ a.mode \in {None, "http", "tcp", Bad}
           /\ a.path \in {None, "set", Bad}
           /\ a.status \in {None, "set", Bad}
           /\ a.interval \in {None, "set", Bad}
           /\ \A k \in Locks : a.locks[k] \in {None, Blank, "on", Bad}
  <1>1. Names = {"visibility", "policy", "sso", "roles", "users", "mode", "path", "status",
                 "interval", "locks"}
    BY DEF Names, Values
  <1>2. a.locks \in Values.locks
    BY <1>1 DEF IsAnnotations
  <1>3. QED
    BY <1>1, <1>2 DEF IsAnnotations, Values

\* A list that is let in names grantees.
LEMMA ListType ==
    ASSUME NEW l \in Lists, ListFits(l), l # None
    PROVE  l \in Grants
  BY DEF Lists, ListFits, Grants

\* A check that is let in says everything, with its own words.
LEMMA CheckType ==
    ASSUME NEW a, IsAnnotations(a), CheckFits(a)
    PROVE  /\ CheckOf(a) \in Checks \cup {None}
           /\ CheckOf(a) = None <=> a.mode = None /\ a.path = None
           /\ \A c \in {"mode", "path", "status", "interval"} :
                  a[c] # None => CheckOf(a) # None /\ CheckOf(a)[c] = a[c]
  <1>1. /\ a.mode \in {None, "http", "tcp"}
        /\ a.path \in {None, "set", Bad} /\ a.status \in {None, "set", Bad}
        /\ a.interval \in {None, "set", Bad}
    BY AnnotationsType DEF CheckFits
  <1>2. None \notin Checks /\ None \notin Words /\ Bad \notin Words
    BY AccessAssumption
  <1>3. CASE a.mode = None /\ a.path = None
    BY <1>3 DEF CheckOf, CheckFits
  <1>4. CASE ~ (a.mode = None /\ a.path = None)
    <2>1. CASE a.mode = "tcp"
      <3>1. a.path = None /\ a.status = None /\ a.interval \in {None, "set"}
        BY <1>1, <1>4, <2>1 DEF CheckFits, HttpOnly
      <3>2. CheckOf(a) = [mode |-> "tcp", path |-> "empty", status |-> "default",
                          interval |-> IF a.interval = None THEN "default" ELSE a.interval]
        BY <1>2, <1>4, <2>1, <3>1 DEF CheckOf, Defaulted, Words
      <3>3. CheckOf(a) \in Checks
        BY <3>1, <3>2 DEF Checks
      <3>4. QED
        BY <1>2, <1>4, <2>1, <3>1, <3>2, <3>3
    <2>2. CASE a.mode # "tcp"
      <3>1. a.path = "set" /\ a.status \in {None, "set"} /\ a.interval \in {None, "set"}
        BY <1>1, <1>4, <2>2 DEF CheckFits
      <3>2. CheckOf(a) = [mode     |-> IF a.mode = None THEN "http" ELSE a.mode,
                          path     |-> "set",
                          status   |-> IF a.status = None THEN "default" ELSE a.status,
                          interval |-> IF a.interval = None THEN "default" ELSE a.interval]
        BY <1>4, <2>2, <3>1 DEF CheckOf, Defaulted
      <3>3. CheckOf(a) \in Checks
        BY <1>1, <2>2, <3>1, <3>2 DEF Checks
      <3>4. QED
        BY <1>2, <1>4, <3>1, <3>2, <3>3
    <2>3. QED
      BY <2>1, <2>2
  <1>5. QED
    BY <1>3, <1>4

----------------------------------------------------------------------------
(* The inductive invariant.                                                *)

\* What is known of an entry that a pass holds: it was rendered from the annotations
\* the pass has read, and they were let in.  The policy may have changed since.
EntryOf(a) ==
    IF a.visibility = "private"
    THEN /\ ListFits(a.roles) /\ ListFits(a.users)
         /\ sent = [private |-> TRUE, entry |-> PrivateResource(a)]
    ELSE /\ IF a.policy = None THEN InlineFits(a) ELSE ~ Conflicts(a)
         /\ CheckFits(a)
         /\ sent = [private |-> FALSE, entry |-> PublicResource(a)]

SentAsRead == pc # "idle" => IsAnnotations(view) /\ (sent # None => EntryOf(view))

Inv == TypeOK /\ SentAsRead

PublicRows  == [policy : {None, "policy"}, sso : BOOLEAN, roles : Grants, users : Grants,
                locks : SUBSET Understood, check : Checks \cup {None}]
PrivateRows == [roles : Grants, users : SUBSET Members]

\* What an apply makes of an entry is a row again.
LEMMA MergedType ==
    ASSUME TypeOK, NEW a, IsAnnotations(a), CheckFits(a),
           IF a.policy = None THEN InlineFits(a) ELSE ~ Conflicts(a)
    PROVE  /\ MergedPublic(public, PublicResource(a)) \in PublicRows
           /\ MergedPublic(public, PublicResource(a)).check = CheckOf(a)
  <1> DEFINE e   == PublicResource(a)
             old == IF public = None THEN NewRow ELSE public
  <1>1. old \in PublicRows
    BY DEF TypeOK, NewRow, PublicRows, Grants
  <1>2. CheckOf(a) \in Checks \cup {None} /\ None \notin Words
    BY CheckType, AccessAssumption
  <1>3. CheckMerged(old.check, CheckOf(a)) = CheckOf(a)
    <2>1. CASE CheckOf(a) = None \/ old.check = None
      BY <2>1 DEF CheckMerged
    <2>2. CASE CheckOf(a) # None /\ old.check # None
      <3>1. CheckOf(a) \in Checks
        BY <1>2, <2>2
      <3>2. PICK new \in Checks : CheckOf(a) = new
        BY <3>1
      <3>3. \A c \in DOMAIN new : new[c] # None
        BY <1>2 DEF Checks, Words
      <3>4. new = [c \in DOMAIN new |-> new[c]]
        BY DEF Checks
      <3>5. CheckMerged(old.check, new) = [c \in DOMAIN new |-> new[c]]
        BY <2>2, <3>2, <3>3 DEF CheckMerged
      <3>6. QED
        BY <3>2, <3>4, <3>5
    <2>3. QED
      BY <2>1, <2>2
  <1>4. /\ a.policy \in {None, "policy"} /\ OnLocks(a) \subseteq Locks
        /\ e.roles \in Grants \cup {None} /\ e.users \in Grants \cup {None}
    <2>1. a.policy = None =>
              a.roles \in Grants \cup {None} /\ a.users \in Grants \cup {None}
      BY AnnotationsType, ListType DEF InlineFits
    <2>2. QED
      BY <2>1, AnnotationsType DEF OnLocks, PublicResource
  <1>5. MergedPublic(public, e) =
            [policy |-> a.policy,
             sso    |-> a.policy = None /\ a.sso # "false",
             roles  |-> IF e.roles = None THEN old.roles ELSE e.roles,
             users  |-> IF e.users = None THEN old.users ELSE e.users,
             locks  |-> ((IF a.policy = None THEN OnLocks(a) ELSE {}) \cap Understood)
                            \cup (old.locks \ (Cleared
                                     \cup ({"mtls", "access-rules"} \cap Understood))),
             check  |-> CheckOf(a)]
    BY <1>3 DEF MergedPublic, PublicResource
  <1> DEFINE sso   == a.policy = None /\ a.sso # "false"
             roles == IF e.roles = None THEN old.roles ELSE e.roles
             users == IF e.users = None THEN old.users ELSE e.users
             locks == ((IF a.policy = None THEN OnLocks(a) ELSE {}) \cap Understood)
                          \cup (old.locks \ (Cleared
                                   \cup ({"mtls", "access-rules"} \cap Understood)))
             check == CheckOf(a)
  <1> HIDE DEF e, old
  <1>6. sso \in BOOLEAN
    BY Zenon
  <1>7. roles \in Grants /\ users \in Grants /\ locks \in SUBSET Understood
    BY <1>1, <1>4 DEF PublicRows
  <1> HIDE DEF sso, roles, users, locks, check
  <1>8. MergedPublic(public, e) = [policy |-> a.policy, sso |-> sso, roles |-> roles,
                                   users |-> users, locks |-> locks, check |-> check]
    BY <1>5 DEF sso, roles, users, locks, check
  <1>9. check = CheckOf(a)
    BY DEF check
  <1>10. MergedPublic(public, e) \in PublicRows /\ MergedPublic(public, e).check = check
    BY <1>2, <1>4, <1>6, <1>7, <1>8, <1>9 DEF PublicRows
  <1>11. QED
    BY <1>9, <1>10 DEF e

\* It holds before the first pass.
LEMMA InitInv == Init => Inv
  <1> SUFFICES ASSUME Init PROVE Inv
    OBVIOUS
  <1>1. edits \in 0..MaxEdits /\ meddles \in 0..MaxMeddles /\ faults \in 0..MaxFaults
    <2>1. MaxEdits \in Nat /\ MaxMeddles \in Nat /\ MaxFaults \in Nat
      BY AccessAssumption
    <2>2. QED
      BY <2>1 DEF Init
  <1>2. IsAnnotations(ann)
    BY AccessAssumption DEF Init
  <1>3. QED
    BY <1>1, <1>2 DEF Init, Inv, TypeOK, SentAsRead

\* Either way of taking an entry keeps the rows typed.
LEMMA TakeType ==
    ASSUME Inv, TakeEntry, pc # "idle"
    PROVE  /\ public' # None => public' \in PublicRows
           /\ private' # None => private' \in PrivateRows
  <1>1. CASE sent = None
    BY <1>1 DEF TakeEntry, Inv, TypeOK, PublicRows, PrivateRows
  <1>2. CASE sent # None /\ view.visibility = "private"
    <2>1. sent.private /\ sent.entry = PrivateResource(view)
      BY <1>2 DEF Inv, SentAsRead, EntryOf
    <2>2. view.roles \in Grants \cup {None} /\ view.users \in Grants \cup {None}
      BY <1>2, AnnotationsType, ListType DEF Inv, SentAsRead, EntryOf
    <2>3. MergedPrivate(PrivateResource(view)) \in PrivateRows
      BY <2>2 DEF MergedPrivate, PrivateResource, PrivateRows, Grants
    <2>4. QED
      BY <1>2, <2>1, <2>3 DEF TakeEntry, Inv, TypeOK, PublicRows
  <1>3. CASE sent # None /\ view.visibility # "private"
    <2>1. ~ sent.private /\ sent.entry = PublicResource(view)
      BY <1>3 DEF Inv, SentAsRead, EntryOf
    <2>2. MergedPublic(public, PublicResource(view)) \in PublicRows
      BY <1>3, MergedType DEF Inv, SentAsRead, EntryOf
    <2>3. QED
      BY <1>3, <2>1, <2>2 DEF TakeEntry, Inv, TypeOK, PrivateRows
  <1>4. QED
    BY <1>1, <1>2, <1>3

\* Users write annotations the API server lets through.
LEMMA AnnotateType ==
    ASSUME IsAnnotations(ann), Annotate
    PROVE  IsAnnotations(ann')
  <1>1. ASSUME NEW n \in Names, NEW v \in Values[n], ann' = [ann EXCEPT ![n] = v]
        PROVE  IsAnnotations(ann')
    BY <1>1 DEF IsAnnotations
  <1>2. ASSUME NEW k \in Locks, NEW v \in {None, Blank, "on", Bad},
               ann' = [ann EXCEPT !.locks[k] = v]
        PROVE  IsAnnotations(ann')
    <2>1. "locks" \in Names /\ Values["locks"] = [Locks -> {None, Blank, "on", Bad}]
      BY DEF Names, Values
    <2>2. [ann["locks"] EXCEPT ![k] = v] \in Values["locks"]
      BY <2>1 DEF IsAnnotations
    <2>3. ann' = [ann EXCEPT !["locks"] = [ann["locks"] EXCEPT ![k] = v]]
      BY <1>2
    <2>4. QED
      BY <2>1, <2>2, <2>3 DEF IsAnnotations
  <1>3. QED
    BY <1>1, <1>2 DEF Annotate

\* Every step keeps the types.
LEMMA NextType == Inv /\ [Next]_vars => TypeOK'
  <1> SUFFICES ASSUME Inv, [Next]_vars PROVE TypeOK'
    OBVIOUS
  <1>0. MaxEdits \in Nat /\ MaxMeddles \in Nat /\ MaxFaults \in Nat
    BY AccessAssumption
  <1>1. CASE Read \/ ReadUnlisted
    <2>1. faults' \in 0..MaxFaults
      BY <1>0, <1>1 DEF Read, ReadUnlisted, Inv, TypeOK
    <2>2. QED
      BY <1>1, <2>1 DEF Read, ReadUnlisted, Render, Inv, TypeOK, Understood
  <1>2. CASE Apply
    BY <1>2, TakeType DEF Apply, Inv, TypeOK, PublicRows, PrivateRows, Understood
  <1>3. CASE Prune \/ ApplyRefused
    BY <1>3 DEF Prune, ApplyRefused, Done, Inv, TypeOK, Understood
  <1>4. CASE PassFails
    <2>1. faults' \in 0..MaxFaults
      BY <1>0, <1>4 DEF PassFails, Inv, TypeOK
    <2>2. /\ public' # None => public' \in PublicRows
          /\ private' # None => private' \in PrivateRows
      BY <1>4, TakeType DEF PassFails, Inv, TypeOK, PublicRows, PrivateRows
    <2>3. QED
      BY <1>4, <2>1, <2>2 DEF PassFails, Done, Inv, TypeOK, PublicRows, PrivateRows,
                              Understood
  <1>5. CASE Annotate
    <2>1. edits' \in 0..MaxEdits
      BY <1>0, <1>5 DEF Annotate, Edited, Inv, TypeOK
    <2>2. IsAnnotations(ann')
          /\ UNCHANGED <<policyOk, enterprise, public, private, pc, view, meddles, faults>>
      BY <1>5, AnnotateType DEF Annotate, Inv, TypeOK
    <2>3. QED
      BY <2>1, <2>2 DEF Inv, TypeOK, Understood
  <1>6. CASE EditPolicy
    <2>1. edits' \in 0..MaxEdits
      BY <1>0, <1>6 DEF EditPolicy, Edited, Inv, TypeOK
    <2>2. policyOk' \in BOOLEAN
      BY <1>6, Zenon DEF EditPolicy
    <2>3. QED
      BY <1>6, <2>1, <2>2 DEF EditPolicy, Inv, TypeOK, Understood
  <1>7. CASE Meddle
    <2>1. meddles' \in 0..MaxMeddles
      BY <1>0, <1>7 DEF Meddle, Inv, TypeOK
    <2>2. /\ public' # None => public' \in PublicRows
          /\ private' # None => private' \in PrivateRows
      <3>1. PICK list \in {"roles", "users"} :
              \E gs \in SUBSET (IF list = "users" THEN Members ELSE Grantees) :
                \/ /\ public # None
                   /\ public' = [public EXCEPT ![list] = gs] /\ UNCHANGED private
                \/ /\ private # None
                   /\ private' = [private EXCEPT ![list] = gs] /\ UNCHANGED public
        BY <1>7 DEF Meddle
      <3>2. PICK gs \in SUBSET (IF list = "users" THEN Members ELSE Grantees) :
                \/ /\ public # None
                   /\ public' = [public EXCEPT ![list] = gs] /\ UNCHANGED private
                \/ /\ private # None
                   /\ private' = [private EXCEPT ![list] = gs] /\ UNCHANGED public
        BY <3>1
      <3>3. gs \in Grants /\ (list = "users" => gs \in SUBSET Members)
        BY AccessAssumption DEF Grants
      <3>4. public # None => public \in PublicRows
        BY DEF Inv, TypeOK, PublicRows
      <3>5. private # None => private \in PrivateRows
        BY DEF Inv, TypeOK, PrivateRows
      <3>6. public # None => [public EXCEPT ![list] = gs] \in PublicRows
        BY <3>3, <3>4 DEF PublicRows
      <3>7. private # None => [private EXCEPT ![list] = gs] \in PrivateRows
        <4>1. CASE list = "users"
          BY <3>3, <3>5, <4>1 DEF PrivateRows
        <4>2. CASE list = "roles"
          BY <3>3, <3>5, <4>2 DEF PrivateRows
        <4>3. QED
          BY <4>1, <4>2
      <3>8. QED
        BY <3>2, <3>4, <3>5, <3>6, <3>7
    <2>3. QED
      BY <1>7, <2>1, <2>2 DEF Meddle, Inv, TypeOK, PublicRows, PrivateRows, Understood
  <1>8. CASE UNCHANGED vars
    BY <1>8 DEF vars, Inv, TypeOK, Understood
  <1>9. QED
    BY <1>1, <1>2, <1>3, <1>4, <1>5, <1>6, <1>7, <1>8 DEF Next, Pass

\* What is known of the pass under way outlives every step.
LEMMA NextSent == Inv /\ [Next]_vars => SentAsRead'
  <1> SUFFICES ASSUME Inv, [Next]_vars PROVE SentAsRead'
    OBVIOUS
  <1>1. ASSUME NEW known, Render(known) PROVE SentAsRead'
    <2>1. view' = ann /\ sent' = Entry(known)
      BY <1>1 DEF Render
    <2>2. IsAnnotations(view')
      BY <2>1 DEF Inv, TypeOK
    <2>3. CASE Fits(ann, known)
      <3>1. CASE ann.visibility = "private"
        <4>1. sent' = [private |-> TRUE, entry |-> PrivateResource(ann)]
          BY <2>1, <2>3, <3>1 DEF Entry
        <4>2. QED
          BY <2>1, <2>2, <2>3, <3>1, <4>1 DEF SentAsRead, EntryOf, Fits, PrivateFits,
                                                         GrantsFit
      <3>2. CASE ann.visibility # "private"
        <4>1. sent' = [private |-> FALSE, entry |-> PublicResource(ann)]
          BY <2>1, <2>3, <3>2 DEF Entry
        <4>2. QED
          BY <2>1, <2>2, <2>3, <3>2, <4>1 DEF SentAsRead, EntryOf, Fits, PublicFits, PolicyFits
      <3>3. QED
        BY <3>1, <3>2
    <2>4. CASE ~ Fits(ann, known)
      BY <2>1, <2>2, <2>4 DEF Entry, SentAsRead
    <2>5. QED
      BY <2>3, <2>4
  <1>2. CASE Apply
    BY <1>2 DEF Apply, Inv, SentAsRead, EntryOf
  <1>3. CASE Prune \/ PassFails \/ ApplyRefused
    BY <1>3 DEF Prune, PassFails, ApplyRefused, Done, SentAsRead
  <1>4. CASE UNCHANGED <<pc, view, sent>>
    BY <1>4 DEF Inv, SentAsRead, EntryOf
  <1>5. QED
    BY <1>1, <1>2, <1>3, <1>4
    DEF Next, Pass, Read, ReadUnlisted, Annotate, EditPolicy, Meddle, vars

\* Hence it holds throughout.
LEMMA Invariance == Spec => []Inv
  <1>1. Inv /\ [Next]_vars => Inv'
    BY NextType, NextSent DEF Inv
  <1>2. QED
    BY <1>1, InitInv, PTL DEF Spec

\* Every variable holds a value of its type; no column of a check is left open.
THEOREM Typing == Spec => []TypeOK
  <1>1. Inv => TypeOK
    BY DEF Inv
  <1>2. QED
    BY <1>1, Invariance, PTL

----------------------------------------------------------------------------
(* What an apply brings in force.                                          *)

\* The row an apply leaves behind is made of the entry of the pass, whatever was there.
LEMMA RowApplied ==
    ASSUME Inv, [Next]_vars, PublishesPublicly
    PROVE  /\ IsAnnotations(view)
           /\ IF view.policy = None THEN InlineFits(view) ELSE ~ Conflicts(view)
           /\ CheckFits(view)
           /\ public' = MergedPublic(public, PublicResource(view))
           /\ public'.check = CheckOf(view)
           /\ InForce(public') = Asked(view)
  <1>1. Apply
    BY DEF PublishesPublicly, Next, Pass, Read, ReadUnlisted, Render, ApplyRefused, Prune,
           PassFails, Done, Annotate, EditPolicy, Meddle, vars
  <1>2. /\ IsAnnotations(view) /\ CheckFits(view)
        /\ IF view.policy = None THEN InlineFits(view) ELSE ~ Conflicts(view)
        /\ sent = [private |-> FALSE, entry |-> PublicResource(view)]
    BY DEF PublishesPublicly, Inv, SentAsRead, EntryOf
  <1>3. public' = MergedPublic(public, PublicResource(view))
    BY <1>1, <1>2 DEF PublishesPublicly, Apply, TakeEntry
  <1>4. public'.check = CheckOf(view)
    BY <1>2, <1>3, MergedType DEF Inv
  <1> DEFINE old == IF public = None THEN NewRow ELSE public
  <1>5. old.locks \subseteq Understood
    BY DEF Inv, TypeOK, NewRow
  <1>6. /\ public'.policy = view.policy
        /\ public'.sso = (view.policy = None /\ view.sso # "false")
        /\ public'.locks = ((IF view.policy = None THEN OnLocks(view) ELSE {})
                                   \cap Understood)
                               \cup (old.locks \ (Cleared
                                        \cup ({"mtls", "access-rules"} \cap Understood)))
    BY <1>3 DEF MergedPublic, PublicResource
  <1>7. public'.locks = IF view.policy = None THEN OnLocks(view) \cap Understood ELSE {}
    <2>1. old.locks \ (Cleared \cup ({"mtls", "access-rules"} \cap Understood)) = {}
      BY <1>5 DEF Locks, Cleared, Understood
    <2>2. QED
      BY <1>6, <2>1
  <1>8. InForce(public') = Asked(view)
    <2>1. CASE view.policy = None
      BY <1>6, <1>7, <2>1 DEF InForce, Asked
    <2>2. CASE view.policy # None
      BY <1>6, <1>7, <2>2 DEF InForce, Asked
    <2>3. QED
      BY <2>1, <2>2
  <1>9. QED
    BY <1>2, <1>3, <1>4, <1>8

\* Whatever documents, grants and failures went before, an apply puts a route behind
\* just the protection its annotations ask for (blueprint.go:86-90, policy.go:75-77),
\* in so far as this build of Pangolin has it: the open-source one has no CAs.
THEOREM Protection == Spec => ProtectedAsAsked
  <1>1. Inv /\ [Next]_vars => [PublishesPublicly => InForce(public') = Asked(view)]_vars
    BY RowApplied
  <1>2. QED
    BY <1>1, Invariance, PTL DEF Spec, ProtectedAsAsked

\* And with everything else they say: nothing a published route is annotated with is
\* without effect (visibility.go:73-75) but CAs on an open-source build.
THEOREM AllHeeded == Spec => NothingIgnored
  <1>1. Inv /\ [Next]_vars =>
          [PublishesPublicly =>
             /\ OnLocks(view) \ InForce(public').locks
                    \subseteq IF enterprise THEN {} ELSE {"mtls"}
             /\ \A list \in {"roles", "users"} : Said(view[list]) =>
                    /\ InForce(public').signIn = "on"
                    /\ public'[list] = view[list]
             /\ \A c \in {"mode", "path", "status", "interval"} : view[c] # None =>
                    public'.check # None /\ public'.check[c] = view[c]]_vars
    <2> SUFFICES ASSUME Inv, [Next]_vars, PublishesPublicly
                 PROVE  /\ OnLocks(view) \ InForce(public').locks
                               \subseteq IF enterprise THEN {} ELSE {"mtls"}
                        /\ \A list \in {"roles", "users"} : Said(view[list]) =>
                               /\ InForce(public').signIn = "on"
                               /\ public'[list] = view[list]
                        /\ \A c \in {"mode", "path", "status", "interval"} :
                               view[c] # None =>
                                   public'.check # None /\ public'.check[c] = view[c]
      OBVIOUS
    <2>1. /\ IsAnnotations(view) /\ CheckFits(view)
          /\ IF view.policy = None THEN InlineFits(view) ELSE ~ Conflicts(view)
          /\ public' = MergedPublic(public, PublicResource(view))
          /\ public'.check = CheckOf(view) /\ InForce(public') = Asked(view)
      BY RowApplied
    <2>2. OnLocks(view) \ Asked(view).locks \subseteq IF enterprise THEN {} ELSE {"mtls"}
      <3>1. CASE view.policy = None
        BY <3>1 DEF Asked, Understood, OnLocks
      <3>2. CASE view.policy # None
        <4>1. \A k \in Locks : view.locks[k] # "on"
          BY <2>1, <3>2, AccessAssumption DEF Conflicts, Said, Words
        <4>2. QED
          BY <4>1 DEF OnLocks
      <3>3. QED
        BY <3>1, <3>2
    <2>3. ASSUME Said(view.roles) \/ Said(view.users)
          PROVE  view.policy = None /\ Asked(view).signIn = "on"
      <3>1. view.policy = None
        BY <2>1, <2>3 DEF Conflicts
      <3>2. view.sso # "false"
        BY <2>1, <2>3, <3>1 DEF InlineFits, Said
      <3>3. QED
        BY <3>1, <3>2 DEF Asked
    <2>4. view.policy = None =>
              /\ Said(view.roles) => public'.roles = view.roles
              /\ Said(view.users) => public'.users = view.users
      BY <2>1 DEF MergedPublic, PublicResource, Said
    <2>5. \A c \in {"mode", "path", "status", "interval"} :
              view[c] # None => public'.check # None /\ public'.check[c] = view[c]
      BY <2>1, CheckType
    <2>6. QED
      BY <2>1, <2>2, <2>3, <2>4, <2>5
  <1>2. QED
    BY <1>1, Invariance, PTL DEF Spec, NothingIgnored
=============================================================================
