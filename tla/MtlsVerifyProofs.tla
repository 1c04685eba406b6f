--------------------------- MODULE MtlsVerifyProofs ---------------------------
(***************************************************************************)
(* Theorems about MtlsVerify, for any routes, CA objects, PEM values and   *)
(* bounds.                                                                 *)
(***************************************************************************)
EXTENDS MtlsVerify, FiniteSetTheorems, TLAPS

----------------------------------------------------------------------------
(* The inductive invariant.                                                *)

\* A CA set that was not refused is one Pangolin takes: resolveMtls has validated it.
Validated ==
    \A r \in Routes : resolved[r] # Refused =>
        /\ resolved[r] \in Seq(Certs)
        /\ Len(resolved[r]) <= MaxPerRoute

\* Between two passes nothing is held.  Once a route's source has been read, its set
\* is empty only if no source is named.
EmptyAsAsked ==
    \A r \in Routes :
        /\ pc = "idle" => resolved[r] = <<>>
        /\ (pc # "idle" /\ (pc = "resolve" => r \notin todo) /\ resolved[r] # Refused)
               => (resolved[r] = <<>> <=> view[r] = {})

\* Which routes a pass is still going to call accepted: the rendered ones; once the
\* document is in, those with a resource; and past the check those whose CAs are
\* trusted.
AcceptedSoFar ==
    /\ pc \in {"idle", "resolve"} => \A r \in Routes : verdict[r] # "Accepted"
    /\ pc \in {"apply", "list"} => todo = {}
    /\ \A r \in Routes : verdict[r] = "Accepted" =>
           /\ Published(r)
           /\ pc # "apply" /\ ~ meddled =>
                  /\ r \in rows
                  /\ pc = "list" \/ (pc = "check" /\ r \in todo /\ Sent(r) # {})
                       \/ Covers(r)

Inv == TypeOK /\ Validated /\ EmptyAsAsked /\ AcceptedSoFar

----------------------------------------------------------------------------
(* What a source yields (gateway/mtls.go).                                 *)

\* A set that validateMtlsCA takes has certificates in it, no more than the maximum,
\* and nothing else.
LEMMA ValidatedCAType ==
    ASSUME NEW pem \in Pems, ValidatedCA(pem) # Refused
    PROVE  /\ ValidatedCA(pem) = pem
           /\ pem \in CAs /\ pem \in Seq(Certs)
           /\ Len(pem) \in 1..MaxPerRoute
  <1>1. ValidatedCA(pem) = pem /\ Range(pem) \subseteq Certs /\ Len(pem) \in 1..MaxPerRoute
    BY DEF ValidatedCA
  <1>2. pem \in Seq(Certs \cup {Key, Bad})
    BY MtlsAssumption
  <1>3. \A i \in 1..Len(pem) : pem[i] \in Certs
    BY <1>1, <1>2 DEF Range
  <1>4. QED
    BY <1>1, <1>2, <1>3 DEF CAs

\* What resolveMtls makes of a route's sources: nothing if it names none, and
\* otherwise a validated set or a refusal.
LEMMA ResolvedFromType ==
    ASSUME TypeOK, NEW sources \in Wishes, ResolvedFrom(sources) # Refused
    PROVE  /\ ResolvedFrom(sources) \in CAs \cup {<<>>}
           /\ ResolvedFrom(sources) \in Seq(Certs)
           /\ Len(ResolvedFrom(sources)) <= MaxPerRoute
           /\ ResolvedFrom(sources) = <<>> <=> sources = {}
  <1>1. CASE sources = {}
    BY <1>1, MtlsAssumption DEF ResolvedFrom
  <1>2. CASE sources # {}
    <2> DEFINE source == CHOOSE s \in sources : TRUE
    <2>1. source \in Objects \cup Pems
      BY <1>2, MtlsAssumption
    <2>2. PICK pem \in Pems : ResolvedFrom(sources) = ValidatedCA(pem)
      BY <1>2, <2>1 DEF ResolvedFrom, TypeOK
    <2>3. pem \in CAs /\ pem \in Seq(Certs) /\ Len(pem) \in 1..MaxPerRoute /\ ResolvedFrom(sources) = pem
      BY <2>2, ValidatedCAType
    <2>4. QED
      BY <1>2, <2>3, MtlsAssumption
  <1>3. QED
    BY <1>1, <1>2

\* A list has at least as many members as a set made of it.
LEMMA RangeSmall ==
    ASSUME NEW S, NEW s \in Seq(S), NEW n \in Nat, Len(s) <= n
    PROVE  /\ Range(s) \subseteq S
           /\ Cardinality(Range(s)) \in Nat
           /\ Cardinality(Range(s)) <= n
  <1> DEFINE f == [i \in 1..Len(s) |-> s[i]]
  <1>1. Len(s) \in Nat /\ DOMAIN s = 1..Len(s)
    OBVIOUS
  <1>2. IsFiniteSet(1..Len(s)) /\ Cardinality(1..Len(s)) = Len(s)
    <2> SUFFICES ASSUME NEW m \in Nat PROVE IsFiniteSet(1..m) /\ Cardinality(1..m) = m
      BY <1>1
    <2>1. 1 \in Int /\ m \in Int /\ (IF 1 > m THEN 0 ELSE m - 1 + 1) = m
      OBVIOUS
    <2>2. QED
      BY <2>1, FS_Interval, Zenon
  <1>3. Range(s) = {s[i] : i \in 1..Len(s)}
    BY <1>1 DEF Range
  <1>4. f \in Surjection(1..Len(s), Range(s))
    BY <1>3 DEF Surjection
  <1>5. IsFiniteSet(Range(s)) /\ Cardinality(Range(s)) <= Len(s)
    BY <1>2, <1>4, FS_Surjection
  <1>6. Cardinality(Range(s)) \in Nat
    BY <1>5, FS_CardinalityType
  <1>7. QED
    BY <1>1, <1>3, <1>5, <1>6

\* So Pangolin takes what is sent of a validated set.
LEMMA SentTaken ==
    ASSUME Validated, NEW r \in Routes, Published(r)
    PROVE  /\ Sent(r) = Range(resolved[r])
           /\ Sent(r) \subseteq Certs
           /\ Cardinality(Sent(r)) \in Nat
           /\ Cardinality(Sent(r)) <= MaxPerRoute
  <1>1. resolved[r] \in Seq(Certs) /\ Len(resolved[r]) <= MaxPerRoute /\ MaxPerRoute \in Nat
    BY MtlsAssumption DEF Validated, Published
  <1>2. Sent(r) = Range(resolved[r])
    BY DEF Sent, Published
  <1>3. QED
    BY <1>1, <1>2, RangeSmall

\* What is sent are certificates.
LEMMA SentType == TypeOK /\ Validated => \A r \in Routes : Sent(r) \subseteq Certs
  BY SentTaken DEF Sent, Published

----------------------------------------------------------------------------
(* The invariant is inductive.                                             *)

\* It holds before the first pass.
LEMMA InitInv == Init => Inv
  <1> SUFFICES ASSUME Init PROVE Inv
    OBVIOUS
  <1>1. {} \in Wishes /\ MaxPerRoute \in Nat /\ MaxEdits \in Nat /\ MaxMeddles \in Nat /\ MaxFaults \in Nat
    BY MtlsAssumption
  <1>2. TypeOK
    <2>1. /\ resolved \in [Routes -> CAs \cup {<<>>, Refused}]
          /\ view \in [Routes -> Wishes]
          /\ trusted \in [Routes -> SUBSET Certs]
      BY <1>1 DEF Init
    <2>2. status \in [Routes -> States] /\ verdict \in [Routes -> States]
      BY DEF Init, States
    <2>3. edits \in 0..MaxEdits /\ meddles \in 0..MaxMeddles /\ faults \in 0..MaxFaults
      BY <1>1 DEF Init
    <2>4. QED
      BY <2>1, <2>2, <2>3, Zenon DEF Init, TypeOK
  <1>3. Validated
    BY <1>1 DEF Init, Validated
  <1>4. QED
    BY <1>2, <1>3 DEF Init, Inv, EmptyAsAsked, AcceptedSoFar

\* Every step keeps the types.
LEMMA NextType == TypeOK /\ Validated /\ [Next]_vars => TypeOK'
  <1> SUFFICES ASSUME TypeOK, Validated, [Next]_vars PROVE TypeOK'
    OBVIOUS
  <1>0. MaxEdits \in Nat /\ MaxMeddles \in Nat /\ MaxFaults \in Nat
    BY MtlsAssumption
  <1> USE <1>0 DEF TypeOK, States, cluster, pangolin, pass
  <1>1. CASE Read
    BY <1>1 DEF Read
  <1>2. ASSUME NEW r \in Routes, Resolve(r) PROVE TypeOK'
    <2>1. ResolvedFrom(view[r]) \in CAs \cup {<<>>, Refused}
      BY ResolvedFromType
    <2>2. QED
      BY <1>2, <2>1 DEF Resolve
  <1>3. CASE Render
    BY <1>3 DEF Render
  <1>4. ASSUME TakeDocument PROVE rows' \subseteq Routes /\ trusted' \in [Routes -> SUBSET Certs]
    BY <1>4, SentType DEF TakeDocument
  <1>5. CASE Apply
    BY <1>4, <1>5 DEF Apply, MarkPublishFailed
  <1>6. CASE ApplyFails
    BY <1>4, <1>6 DEF ApplyFails, MarkPublishFailed
  <1>7. CASE List
    BY <1>7 DEF List, MarkNotApplied, Wanted
  <1>8. CASE ListFails
    BY <1>8 DEF ListFails, MarkNotApplied
  <1>9. ASSUME NEW r \in Routes, Check(r) \/ CheckFails(r) PROVE TypeOK'
    BY <1>9 DEF Check, CheckFails, MarkNotApplied
  <1>10. CASE Checked
    BY <1>10 DEF Checked
  <1>11. CASE Prune
    BY <1>11 DEF Prune
  <1>12. CASE WriteStatus
    BY <1>12, MtlsAssumption DEF WriteStatus, Abort
  <1>13. CASE PassFails
    BY <1>13, MtlsAssumption DEF PassFails, Abort
  <1>14. CASE Edit
    BY <1>14 DEF Edit
  <1>15. CASE Meddle
    BY <1>15 DEF Meddle
  <1>16. CASE UNCHANGED vars
    BY <1>16 DEF vars
  <1>17. QED
    BY <1>1, <1>2, <1>3, <1>5, <1>6, <1>7, <1>8, <1>9, <1>10, <1>11, <1>12, <1>13, <1>14,
       <1>15, <1>16 DEF Next, Pass

\* What a pass has resolved stays validated until it is over.
LEMMA NextValidated == TypeOK /\ Validated /\ [Next]_vars => Validated'
  <1> SUFFICES ASSUME TypeOK, Validated, [Next]_vars PROVE Validated'
    OBVIOUS
  <1>1. ASSUME NEW r \in Routes, Resolve(r) PROVE Validated'
    <2>1. view[r] \in Wishes
      BY DEF TypeOK
    <2>2. ResolvedFrom(view[r]) # Refused =>
              /\ ResolvedFrom(view[r]) \in Seq(Certs)
              /\ Len(ResolvedFrom(view[r])) <= MaxPerRoute
      BY <2>1, ResolvedFromType
    <2>3. resolved' = [resolved EXCEPT ![r] = ResolvedFrom(view[r])]
      BY <1>1 DEF Resolve
    <2>4. QED
      BY <2>2, <2>3 DEF Validated, TypeOK
  <1>2. ASSUME Abort PROVE Validated'
    BY <1>2, MtlsAssumption DEF Abort, Validated
  <1>3. ASSUME UNCHANGED resolved PROVE Validated'
    BY <1>3 DEF Validated
  <1>4. QED
    BY <1>1, <1>2, <1>3
    DEF Next, Pass, Read, Check, Render, Apply, List, Checked, Prune, WriteStatus, ApplyFails,
        ListFails, CheckFails, PassFails, Edit, Meddle, vars, pass

\* A row without CAs stays one that was asked for.
LEMMA NextEmpty == TypeOK /\ EmptyAsAsked /\ [Next]_vars => EmptyAsAsked'
  <1> SUFFICES ASSUME TypeOK, EmptyAsAsked, [Next]_vars PROVE EmptyAsAsked'
    OBVIOUS
  <1> USE DEF EmptyAsAsked, TypeOK
  <1>1. CASE Read
    BY <1>1 DEF Read
  <1>2. ASSUME NEW r \in Routes, Resolve(r) PROVE EmptyAsAsked'
    <2>1. ResolvedFrom(view[r]) # Refused => (ResolvedFrom(view[r]) = <<>> <=> view[r] = {})
      BY ResolvedFromType
    <2>2. QED
      BY <1>2, <2>1 DEF Resolve
  <1>3. ASSUME Abort PROVE EmptyAsAsked'
    BY <1>3 DEF Abort
  <1>4. CASE Render
    BY <1>4 DEF Render
  <1>5. ASSUME pc \notin {"idle", "resolve"}, pc' \notin {"idle", "resolve"},
               UNCHANGED <<view, resolved>>
        PROVE  EmptyAsAsked'
    BY <1>5
  <1>6. ASSUME UNCHANGED <<pc, view, todo, resolved>> PROVE EmptyAsAsked'
    BY <1>6
  <1>7. QED
    BY <1>1, <1>2, <1>3, <1>4, <1>5, <1>6
    DEF Next, Pass, Check, Apply, List, Checked, Prune, WriteStatus, ApplyFails, ListFails,
        CheckFails, PassFails, MarkPublishFailed, Edit, Meddle, vars, pass

\* What a pass has found active stays so unless somebody meddles.
LEMMA NextAccepted == TypeOK /\ AcceptedSoFar /\ [Next]_vars => AcceptedSoFar'
  <1> SUFFICES ASSUME TypeOK, AcceptedSoFar, [Next]_vars PROVE AcceptedSoFar'
    OBVIOUS
  <1> USE DEF AcceptedSoFar, TypeOK, Published, Covers, Sent, pangolin, pass
  <1>1. CASE Read
    BY <1>1 DEF Read
  <1>2. ASSUME NEW r \in Routes, Resolve(r) PROVE AcceptedSoFar'
    BY <1>2 DEF Resolve
  <1>3. CASE Render
    BY <1>3 DEF Render
  <1>4. CASE Apply
    BY <1>4 DEF Apply, MarkPublishFailed, TakeDocument
  <1>5. CASE ApplyFails
    BY <1>5 DEF ApplyFails, MarkPublishFailed
  <1>6. CASE List
    BY <1>6 DEF List, MarkNotApplied, Wanted
  <1>7. CASE ListFails
    BY <1>7 DEF ListFails, MarkNotApplied, Wanted
  <1>8. ASSUME NEW r \in Routes, Check(r) \/ CheckFails(r) PROVE AcceptedSoFar'
    BY <1>8 DEF Check, CheckFails, MarkNotApplied
  <1>9. CASE Checked
    BY <1>9 DEF Checked
  <1>10. CASE Prune
    BY <1>10 DEF Prune
  <1>11. ASSUME Abort PROVE AcceptedSoFar'
    BY <1>11 DEF Abort
  <1>12. CASE Edit
    BY <1>12 DEF Edit
  <1>13. CASE Meddle
    BY <1>13 DEF Meddle
  <1>14. CASE UNCHANGED vars
    BY <1>14 DEF vars
  <1>15. QED
    BY <1>1, <1>2, <1>3, <1>4, <1>5, <1>6, <1>7, <1>8, <1>9, <1>10, <1>11, <1>12, <1>13, <1>14
    DEF Next, Pass, WriteStatus, PassFails

\* Hence all of it holds throughout.
LEMMA Invariance == Spec => []Inv
  <1>1. Init => Inv
    BY InitInv
  <1>2. Inv /\ [Next]_vars => Inv'
    BY NextType, NextValidated, NextEmpty, NextAccepted DEF Inv
  <1>3. QED
    BY <1>1, <1>2, PTL DEF Spec

----------------------------------------------------------------------------
(* The theorems.                                                           *)

\* Every variable holds a value of its type.
THEOREM Typing == Spec => []TypeOK
  <1>1. Inv => TypeOK
    BY DEF Inv
  <1>2. QED
    BY <1>1, Invariance, PTL

\* Whatever annotations, Secrets and ConfigMaps hold, Pangolin refuses no document for
\* a CA in it: resolveMtls and validateMtlsCA turn away what Pangolin would.
THEOREM ApplySpared == Spec => []NeverFailsTheApply
  <1>1. Inv => NeverFailsTheApply
    <2> SUFFICES ASSUME Inv PROVE ~ DocumentRefused
      BY DEF NeverFailsTheApply
    <2>1. MaxPerRoute \in Nat
      BY MtlsAssumption
    <2>2. ASSUME NEW r \in Routes, Published(r)
          PROVE  Sent(r) \subseteq Certs /\ ~ Cardinality(Sent(r)) > MaxPerRoute
      <3>1. /\ Sent(r) \subseteq Certs
            /\ Cardinality(Sent(r)) \in Nat /\ Cardinality(Sent(r)) <= MaxPerRoute
        BY <2>2, SentTaken DEF Inv
      <3>2. QED
        BY <2>1, <3>1
    <2>3. QED
      BY <2>2 DEF DocumentRefused, Published, Sent
  <1>2. QED
    BY <1>1, Invariance, PTL

\* A route that WriteStatus reports accepted has a resource that trusts its CAs, as
\* long as nobody else has touched Pangolin: markMtlsNotApplied has seen to the others.
THEOREM AcceptedIsActive == Spec => AcceptedMeansActive
  <1>1. Inv /\ [Next]_vars =>
          [\A r \in Routes :
             (WriteStatus /\ Requested(r) /\ status'[r] = "Accepted" /\ ~ meddled)
                 => /\ r \in rows
                    /\ resolved[r] # Refused
                    /\ Range(resolved[r]) \subseteq trusted[r]]_vars
    BY DEF Inv, AcceptedSoFar, WriteStatus, Published, Covers, Sent
  <1>2. QED
    BY <1>1, Invariance, PTL DEF Spec, AcceptedMeansActive

\* Where a pass brings up a resource or changes a set, the set is empty only if the
\* route it has read names no source: a refusal is never taken for "none".
THEOREM NeverOpen == Spec => NeverOpenUnasked
  <1>1. Inv /\ [Next]_vars =>
          [\A r \in Routes :
             (/\ pc = "apply" /\ build = "enterprise" /\ UNCHANGED meddles
              /\ r \in rows' \ rows \/ trusted'[r] # trusted[r])
                 => (trusted'[r] = {} <=> view[r] = {})]_vars
    <2> SUFFICES ASSUME Inv, [Next]_vars, NEW r \in Routes,
                        pc = "apply", build = "enterprise", UNCHANGED meddles,
                        r \in rows' \ rows \/ trusted'[r] # trusted[r]
                 PROVE  trusted'[r] = {} <=> view[r] = {}
      OBVIOUS
    <2>1. TakeDocument
      BY MtlsAssumption
      DEF Inv, TypeOK, Next, Pass, Read, Resolve, Check, Render, Apply, List, Checked, Prune, WriteStatus,
          ApplyFails, ListFails, CheckFails, PassFails, Edit, Meddle, vars, pangolin
    <2>2. Published(r) /\ trusted'[r] = Sent(r)
      BY <2>1 DEF TakeDocument
    <2>3. resolved[r] = <<>> <=> view[r] = {}
      BY <2>2 DEF Inv, EmptyAsAsked, Published
    <2>4. resolved[r] \in Seq(Certs) /\ Sent(r) = Range(resolved[r])
      BY <2>2, SentTaken DEF Inv, Validated, Published
    <2>5. Range(resolved[r]) = {} <=> resolved[r] = <<>>
      <3>1. CASE resolved[r] = <<>>
        BY <3>1 DEF Range
      <3>2. CASE resolved[r] # <<>>
        <4>1. 1 \in DOMAIN resolved[r]
          BY <2>4, <3>2
        <4>2. QED
          BY <3>2, <4>1 DEF Range
      <3>3. QED
        BY <3>1, <3>2
    <2>6. QED
      BY <2>2, <2>3, <2>4, <2>5
  <1>2. QED
    BY <1>1, Invariance, PTL DEF Spec, NeverOpenUnasked
=============================================================================
