--------------------------- MODULE BasicAuthSecret ---------------------------
(***************************************************************************)
(* Where the basic auth credentials of one route come from                 *)
(* (controller/basicauth.go, gateway/basicauth.go).  They live in a Secret *)
(* whose name follows from the route's name, so a route that is deleted    *)
(* and created again meets the Secret of its predecessor, which the        *)
(* garbage collector removes sooner or later.  Routes come from a cache    *)
(* that lags, Secrets straight from the API server, and nobody watches     *)
(* Secrets.                                                                *)
(*                                                                         *)
(* One name, and everything that may come to bear it: route incarnations   *)
(* with their UIDs, the Secret, and the row in Pangolin.                   *)
(***************************************************************************)
EXTENDS Naturals

CONSTANTS
    MaxBirths,   \* bound on the incarnations of the route: their UIDs
    Fresh,       \* numbers that tell passwords of one owner apart
    MaxEdits,    \* bound on what users do
    MaxFaults,   \* bound on what fails
    DryRuns,     \* what the --dry-run flag may be
    None,        \* no route, no Secret, no row, no credentials
    Refused      \* credentials that cannot be had

Uids == 1..MaxBirths

\* A password remembers whom it was generated for; 0 for one a user made up.
Passwords == [for : Uids \cup {0}, n : Fresh]

Routes  == [uid : Uids, protected : BOOLEAN]
Secrets == [owner : Uids \cup {0}, password : Passwords \cup {None}]
RowsOf  == [uid : Uids, password : Passwords \cup {None}]

ASSUME SecretAssumption ==
    /\ MaxBirths \in Nat /\ MaxEdits \in Nat /\ MaxFaults \in Nat
    /\ DryRuns \subseteq BOOLEAN
    /\ None \notin Passwords \cup Routes \cup Secrets \cup RowsOf
    /\ Refused \notin Passwords \cup {None}

VARIABLES
    dryRun,    \* the --dry-run flag
    route,     \* the route in the API server, or None
    births,    \* the incarnations so far
    cache,     \* the cached copy of the route
    secret,    \* the Secret of that name, or None
    row,       \* the row in Pangolin: for whom, and its password or None; or None
    pc,        \* "idle", "get", "create", "apply", "prune"
    view,      \* the route this pass has read
    creds,     \* what was resolved for it: a password, Refused or None
    retired,   \* those published or about to be that somebody took from the Secret
    edits,
    faults

passVars == <<pc, view, creds>>
vars == <<dryRun, route, births, cache, secret, row, pc, view, creds, retired, edits, faults>>

Holds(holder, p) == holder # None /\ holder.password = p

NewPasswords(uid) ==
    {p \in [for : {uid}, n : Fresh] :
        ~ Holds(secret, p) /\ ~ Holds(row, p) /\ p \notin retired}

----------------------------------------------------------------------------
(* A pass.                                                                 *)

\* The route is listed from the cache; only a protected one needs a Secret.
Read ==
    /\ pc = "idle"
    /\ view' = cache
    /\ creds' = None
    /\ pc' = IF cache # None /\ cache.protected THEN "get" ELSE "apply"
    /\ retired' = {p \in retired : Holds(row, p)}
    /\ UNCHANGED <<dryRun, route, births, cache, secret, row, edits, faults>>

\* Faulty variant: an owner of that name will do.
OwnedByRoute == secret.owner # 0

OwnedBy == secret.owner = view.uid

\* Faulty variant: keys that are empty are taken for credentials.
CredentialsAsFound == IF OwnedBy THEN secret.password ELSE Refused

\* A Secret of another owner is refused, not adopted, and so is one without keys.
Credentials ==
    IF OwnedBy /\ secret.password # None THEN secret.password ELSE Refused

Refuse ==
    /\ creds' = Refused
    /\ pc' = "apply"

\* Faulty variant: the dry run creates the Secret it misses.
GetEvenInDryRun ==
    /\ pc = "get"
    /\ IF secret = None THEN pc' = "create" /\ UNCHANGED creds
       ELSE creds' = Credentials /\ pc' = "apply"
    /\ UNCHANGED <<dryRun, route, births, cache, secret, row, view, retired, edits, faults>>

Get ==
    /\ pc = "get"
    /\ IF secret = None
       THEN IF dryRun THEN Refuse ELSE pc' = "create" /\ UNCHANGED creds
       ELSE creds' = Credentials /\ pc' = "apply"
    /\ UNCHANGED <<dryRun, route, births, cache, secret, row, view, retired, edits, faults>>

\* An error ends the pass before anything is published.
Abort ==
    /\ pc' = "idle"
    /\ view' = None
    /\ creds' = None

\* Faulty variant: a Secret that turned up meanwhile is no obstacle.
CreateRegardless ==
    /\ pc = "create"
    /\ \E p \in NewPasswords(view.uid) :
           /\ creds' = p
           /\ secret' = IF secret = None THEN [owner |-> view.uid, password |-> p] ELSE secret
    /\ pc' = "apply"
    /\ UNCHANGED <<dryRun, route, births, cache, row, view, retired, edits, faults>>

\* Created once, for the incarnation that was read, which may be gone by now.
\* AlreadyExists is an error.
Create ==
    /\ pc = "create"
    /\ IF secret = None
       THEN /\ \E p \in NewPasswords(view.uid) :
                   creds' = p /\ secret' = [owner |-> view.uid, password |-> p]
            /\ pc' = "apply"
            /\ UNCHANGED view
       ELSE Abort /\ UNCHANGED secret
    /\ UNCHANGED <<dryRun, route, births, cache, row, retired, edits, faults>>

\* A request fails, and a create may have taken effect all the same.
RequestFails ==
    /\ pc \in {"get", "create"}
    /\ faults < MaxFaults
    /\ faults' = faults + 1
    /\ \/ UNCHANGED secret
       \/ /\ pc = "create" /\ secret = None
          /\ \E p \in NewPasswords(view.uid) :
                 secret' = [owner |-> view.uid, password |-> p]
    /\ Abort
    /\ UNCHANGED <<dryRun, route, births, cache, row, retired, edits>>

\* Faulty variant: a route that is refused its credentials is published open.
PublishedOpenly == view # None

\* A route that asks for protection is published with it or not at all.
Published == view # None /\ (view.protected => creds # Refused)

NewRow == [uid |-> view.uid, password |-> creds]

\* The dry-run client answers without passing anything on.
Apply ==
    /\ pc = "apply"
    /\ row' = IF Published /\ ~ dryRun THEN NewRow ELSE row
    /\ pc' = "prune"
    /\ UNCHANGED <<dryRun, route, births, cache, secret, view, creds, retired, edits, faults>>

ApplyFails ==
    /\ pc = "apply" /\ ~ dryRun
    /\ faults < MaxFaults
    /\ faults' = faults + 1
    /\ row' \in {row, IF Published THEN NewRow ELSE row}
    /\ Abort
    /\ UNCHANGED <<dryRun, route, births, cache, secret, retired, edits>>

\* Faulty variant: the row goes with the route, not with its credentials.
PruneOnlyDeleted ==
    /\ pc = "prune"
    /\ row' = IF view # None \/ dryRun THEN row ELSE None
    /\ Abort
    /\ UNCHANGED <<dryRun, route, births, cache, secret, retired, edits, faults>>

Prune ==
    /\ pc = "prune"
    /\ row' = IF Published \/ dryRun THEN row ELSE None
    /\ Abort
    /\ UNCHANGED <<dryRun, route, births, cache, secret, retired, edits, faults>>

\* The next controller may be started with another flag.
Crash ==
    /\ pc # "idle"
    /\ faults < MaxFaults
    /\ faults' = faults + 1
    /\ dryRun' \in DryRuns
    /\ Abort
    /\ UNCHANGED <<route, births, cache, secret, row, retired, edits>>

----------------------------------------------------------------------------
(* Users, the informer and the garbage collector.                          *)

Edited ==
    /\ edits < MaxEdits
    /\ edits' = edits + 1

CreateRoute ==
    /\ route = None /\ births < MaxBirths
    /\ Edited
    /\ births' = births + 1
    /\ \E protected \in BOOLEAN :
           route' = [uid |-> births + 1, protected |-> protected]
    /\ UNCHANGED <<dryRun, cache, secret, row, passVars, retired, faults>>

Annotate ==
    /\ route # None
    /\ Edited
    /\ route' = [route EXCEPT !.protected = ~ @]
    /\ UNCHANGED <<dryRun, births, cache, secret, row, passVars, retired, faults>>

DeleteRoute ==
    /\ route # None
    /\ Edited
    /\ route' = None
    /\ UNCHANGED <<dryRun, births, cache, secret, row, passVars, retired, faults>>

Retire ==
    retired' = retired \cup {p \in Passwords : Holds(secret, p) /\ (Holds(row, p) \/ creds = p)}

\* Deleting the Secret is how a password is rotated; a user may also put one of
\* their own in its place, or empty it.
EditSecret ==
    /\ Edited
    /\ \/ secret # None /\ secret' = None
       \/ secret # None /\ secret' = [secret EXCEPT !.password = None]
       \/ secret = None /\ \E p \in NewPasswords(0) :
              secret' = [owner |-> 0, password |-> p]
    /\ Retire
    /\ UNCHANGED <<dryRun, route, births, cache, row, passVars, faults>>

Deliver ==
    /\ cache # route
    /\ cache' = route
    /\ UNCHANGED <<dryRun, route, births, secret, row, passVars, retired, edits, faults>>

\* Nothing that exists owns the Secret any more.
CollectSecret ==
    /\ secret # None
    /\ secret.owner # 0
    /\ route # None => route.uid # secret.owner
    /\ secret' = None
    /\ Retire
    /\ UNCHANGED <<dryRun, route, births, cache, row, passVars, edits, faults>>

----------------------------------------------------------------------------
Init ==
    /\ dryRun \in DryRuns
    /\ route = None /\ births = 0 /\ cache = None
    /\ secret = None
    /\ row = None
    /\ pc = "idle" /\ view = None /\ creds = None
    /\ retired = {}
    /\ edits = 0 /\ faults = 0

Pass == Read \/ Get \/ Create \/ Apply \/ Prune

Next ==
    \/ Pass
    \/ RequestFails
    \/ ApplyFails
    \/ Crash
    \/ CreateRoute
    \/ Annotate
    \/ DeleteRoute
    \/ EditSecret
    \/ Deliver
    \/ CollectSecret

Spec == Init /\ [][Next]_vars

\* Passes follow each other, at least every resync interval; informer and
\* garbage collector do their work.
FairSpec == Spec /\ WF_vars(Pass) /\ WF_vars(Deliver) /\ WF_vars(CollectSecret)

----------------------------------------------------------------------------
(* Properties.                                                             *)

\* Every variable holds a value of its type.
TypeOK ==
    /\ dryRun \in DryRuns
    /\ route \in Routes \cup {None} /\ cache \in Routes \cup {None}
    /\ view \in Routes \cup {None}
    /\ births \in 0..MaxBirths
    /\ secret \in Secrets \cup {None}
    /\ row \in RowsOf \cup {None}
    /\ pc \in {"idle", "get", "create", "apply", "prune"}
    /\ creds \in Passwords \cup {None, Refused}
    /\ retired \subseteq Passwords
    /\ edits \in 0..MaxEdits /\ faults \in 0..MaxFaults

\* A Secret that belongs to something else is refused rather than adopted
\* (basicauth.go:132-134): the password on the internet is one the controller
\* generated for the very incarnation of the route that is published.  (A password that
\* somebody writes over it in that very Secret is published as well; no edit here does.)
OwnPassword ==
    row # None /\ row.password # None => row.password.for = row.uid

\* The password is never rewritten, a rotation is a deletion (basicauth.go:87-89):
\* the published password of an incarnation is replaced only once somebody took it
\* from the Secret, where operators look it up, crashes and lost answers
\* notwithstanding.
ChangesOnlyByRotation ==
    [][row # None /\ row' # None /\ row.password # None /\ row'.password # None
       /\ row'.uid = row.uid /\ row'.password # row.password
       => row.password \in retired]_vars

\* A protected route is never published open (basicauth.go:36-38): a row without
\* a password belongs to an incarnation that, as read, asked for none.
OpenOnlyWhenAsked ==
    [][row' # None /\ row' # row /\ row'.password = None => ~ view.protected]_vars

\* What Pangolin should hold for the route as it is, given the Secret.
Agrees ==
    IF route = None THEN row = None
    ELSE IF ~ route.protected THEN row = [uid |-> route.uid, password |-> None]
    ELSE /\ secret # None
         /\ IF secret.owner = route.uid /\ secret.password # None
            THEN row = [uid |-> route.uid, password |-> secret.password]
            ELSE row = None /\ secret.owner \in {0, route.uid}

\* Without anybody watching Secrets (basicauth.go:33): once users rest, the
\* route is published with what its own Secret holds, also one that took the
\* name of another, unless a user's Secret is in the way.
SettlesOnOwnSecret == <>[]~dryRun => <>[]Agrees

\* "Under --dry-run no Secret is written" (README.md:337), and nothing published.
DryRunWritesNothing == [][dryRun /\ (Pass \/ RequestFails) => UNCHANGED <<secret, row>>]_vars
=============================================================================
