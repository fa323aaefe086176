---------------------------- MODULE ShelterIntake ----------------------------
(***************************************************************************)
(* Shelters, the victims placed in them, and the Redis cache in front of   *)
(* GET /shelters/:id.                                                      *)
(*                                                                         *)
(* Assign is one transaction: it locks the victim, claims a bed with a     *)
(* guarded UPDATE that keeps the shelter's row locked, updates the victim, *)
(* reads the shelter back and writes the event.  Its locks are told by pc: *)
(* from "admit" on it holds the victim, at "commit" the shelter too.  The  *)
(* cache entry is deleted after the commit, by a separate call that may    *)
(* fail or never be made.                                                  *)
(*                                                                         *)
(* singleflight admits one load of a key at a time per replica: flight is  *)
(* what each replica is loading.  Requests that join a flight return its   *)
(* result and write nothing, so they are not represented.                  *)
(***************************************************************************)
EXTENDS Integers, FiniteSets

CONSTANTS
  Procs,      \* request handlers that write, of any replica
  Replicas,   \* API processes, each with its own singleflight group
  Victims, Shelters,
  Capacity,   \* shelters.capacity
  RedisFails, \* whether Redis calls may fail
  MaxToggles, \* bound on the operators' status updates
  None

ASSUME ShelterAssumption ==
  /\ Capacity \in [Shelters -> Nat \ {0}]
  /\ RedisFails \in BOOLEAN
  /\ MaxToggles \in Nat
  /\ IsFiniteSet(Victims)
  /\ None \notin Victims \cup Shelters

VARIABLES
  vStatus, vShelter,  \* victims: "absent" before intake
  sStatus, occupancy, \* shelters: "absent" before registration
  outbox,             \* committed victim.assigned events
  pc, req,            \* each handler's next statement and its locals
  cache,              \* Redis: the row cached for each shelter, or NoRow
  flight,             \* what each replica's singleflight group is loading
  excused,            \* history: shelters whose entry missed a change
  toggles             \* status updates so far

victimVars  == <<vStatus, vShelter>>
shelterVars == <<sStatus, occupancy>>
procVars    == <<pc, req>>
cacheVars   == <<cache, flight, excused>>
vars == <<victimVars, shelterVars, outbox, procVars, cacheVars, toggles>>

OpenOrClosed == {"open", "closed"}

NoReq == [victim |-> None, shelter |-> None, occupancy |-> 0]

\* What a reader of a shelter sees; NoRow also stands for a missing cache entry.
NoRow == [status |-> "absent", occupancy |-> 0]
Row(s) == [status |-> sStatus[s], occupancy |-> occupancy[s]]
Exists(s) == sStatus[s] # "absent"

Goto(p, step) == pc' = [pc EXCEPT ![p] = step]
End(p) == Goto(p, "idle") /\ req' = [req EXCEPT ![p] = NoReq]

-----------------------------------------------------------------------------
(* Registration.                                                            *)

CreateVictim(v) ==
  /\ vStatus[v] = "absent"
  /\ vStatus' = [vStatus EXCEPT ![v] = "registered"]
  /\ UNCHANGED <<vShelter, shelterVars, outbox, procVars, cacheVars, toggles>>

CreateShelter(s) ==
  /\ ~Exists(s)
  /\ sStatus' = [sStatus EXCEPT ![s] = "open"]
  /\ occupancy' = [occupancy EXCEPT ![s] = 0]
  /\ UNCHANGED <<victimVars, outbox, procVars, cacheVars, toggles>>

-----------------------------------------------------------------------------
(* Assigning a victim to a shelter.                                         *)

\* Row locks: a victim from FOR UPDATE, a shelter from its UPDATE to the end.
VictimFree(v) == \A q \in Procs : pc[q] \in {"admit", "commit"} => req[q].victim # v
AlwaysFree(s) == TRUE \* mutant: a read and a later write, without the row lock
RowFree(s) == \A q \in Procs : pc[q] = "commit" => req[q].shelter # s

AnyVictim(v) == vStatus[v] # "absent" \* mutant: no check under the lock
Unassigned(v) == vStatus[v] = "registered"

\* SELECT .. FOR UPDATE of the victim.  A refusal here changes nothing.
LockVictim(p, v, s) ==
  /\ pc[p] = "idle"
  /\ VictimFree(v)
  /\ Unassigned(v)
  /\ req' = [req EXCEPT ![p] = [NoReq EXCEPT !.victim = v, !.shelter = s]]
  /\ Goto(p, "admit")
  /\ UNCHANGED <<victimVars, shelterVars, outbox, cacheVars, toggles>>

RoomOnly(s) == Exists(s) /\ occupancy[s] < Capacity[s] \* mutant: closed shelters too
CanAdmit(s) == sStatus[s] = "open" /\ occupancy[s] < Capacity[s]

\* The guarded UPDATE finds the row; the statements after it touch only rows the
\* transaction has locked by now.  The CHECK on occupancy repeats the guard.
AdmitTx(p) ==
  LET s == req[p].shelter IN
  /\ pc[p] = "admit"
  /\ CanAdmit(s)
  /\ RowFree(s)
  /\ req' = [req EXCEPT ![p].occupancy = occupancy[s] + 1]
  /\ Goto(p, "commit")
  /\ UNCHANGED <<victimVars, shelterVars, outbox, cacheVars, toggles>>

\* It does not, whether or not the row is locked: no such shelter, closed, full.
Refuse(p) ==
  /\ pc[p] = "admit"
  /\ ~CanAdmit(req[p].shelter)
  /\ End(p)
  /\ UNCHANGED <<victimVars, shelterVars, outbox, cacheVars, toggles>>

\* mutant: the shelter is read back through the pool, outside the transaction
ReadCommitted(p) == occupancy[req[p].shelter]
\* The transaction's own read of the shelter sees its own UPDATE.
GetByIDTx(p) == req[p].occupancy

Commit(p) ==
  LET v == req[p].victim  s == req[p].shelter IN
  /\ pc[p] = "commit"
  /\ vStatus' = [vStatus EXCEPT ![v] = "sheltered"]
  /\ vShelter' = [vShelter EXCEPT ![v] = s]
  /\ occupancy' = [occupancy EXCEPT ![s] = req[p].occupancy]
  /\ outbox' = outbox \cup {[victim |-> v, shelter |-> s, occupancy |-> GetByIDTx(p)]}
  /\ Goto(p, "invalidate")
  /\ UNCHANGED <<sStatus, req, cacheVars, toggles>>

-----------------------------------------------------------------------------
(* Opening and closing a shelter.                                           *)

\* mutant: the status changes and the cache entry stays
UpdateWithoutDel(p, s, st) ==
  /\ pc[p] = "idle" /\ toggles < MaxToggles /\ Exists(s) /\ RowFree(s)
  /\ sStatus' = [sStatus EXCEPT ![s] = st]
  /\ toggles' = toggles + 1
  /\ UNCHANGED <<victimVars, occupancy, outbox, procVars, cacheVars>>
\* One UPDATE that commits by itself, after waiting for the row.
UpdateStatus(p, s, st) ==
  /\ pc[p] = "idle"
  /\ toggles < MaxToggles
  /\ Exists(s)
  /\ RowFree(s)
  /\ sStatus' = [sStatus EXCEPT ![s] = st]
  /\ req' = [req EXCEPT ![p] = [NoReq EXCEPT !.shelter = s]]
  /\ Goto(p, "invalidate")
  /\ toggles' = toggles + 1
  /\ UNCHANGED <<victimVars, occupancy, outbox, cacheVars>>

-----------------------------------------------------------------------------
(* The cache.  excused collects the shelters whose entry may lag behind: a  *)
(* deletion failed or was never made, or a load older than the row was      *)
(* written after it.                                                        *)

Drop(s) ==
  /\ cache' = [cache EXCEPT ![s] = NoRow]
  /\ excused' = excused \ {s}

Excuse(s) == excused' = excused \cup {s} /\ UNCHANGED cache

\* DEL after the commit; its failure is only logged.
Invalidate(p) ==
  /\ pc[p] = "invalidate"
  /\ \/ Drop(req[p].shelter)
     \/ RedisFails /\ Excuse(req[p].shelter)
  /\ End(p)
  /\ UNCHANGED <<victimVars, shelterVars, outbox, flight, toggles>>

\* The handler's process dies or its client goes away.  Before the commit the
\* transaction is rolled back; after it, or if the commit's answer was lost, the
\* entry is not deleted.
Crash(p) ==
  /\ pc[p] # "idle"
  /\ End(p)
  /\ IF pc[p] = "invalidate" THEN Excuse(req[p].shelter) ELSE UNCHANGED <<cache, excused>>
  /\ UNCHANGED <<victimVars, shelterVars, outbox, flight, toggles>>

Loading == [NoRow EXCEPT !.status = "loading"]

Fly(r, s, f) == flight' = [flight EXCEPT ![r][s] = f]

\* A miss, or an error that counts as one, starts a flight; hits change nothing.
Miss(r, s) ==
  /\ flight[r][s] = NoRow
  /\ cache[s] = NoRow \/ RedisFails
  /\ Fly(r, s, Loading)
  /\ UNCHANGED <<victimVars, shelterVars, outbox, procVars, cache, excused, toggles>>

Found(r, s) == flight[r][s] = Loading /\ Exists(s)

Load(r, s) ==
  /\ Found(r, s)
  /\ Fly(r, s, Row(s))
  /\ UNCHANGED <<victimVars, shelterVars, outbox, procVars, cache, excused, toggles>>

\* mutant: the failure is cached in place of a row
CacheFailure(r, s) ==
  /\ flight[r][s] = Loading
  /\ cache' = [cache EXCEPT ![s] = Loading]
  /\ Fly(r, s, NoRow)
  /\ UNCHANGED <<victimVars, shelterVars, outbox, procVars, excused, toggles>>
\* Not found, a database error, a cancelled leader or a crash: nothing is cached.
LoadFails(r, s) ==
  /\ flight[r][s] # NoRow
  /\ Fly(r, s, NoRow)
  /\ UNCHANGED <<victimVars, shelterVars, outbox, procVars, cache, excused, toggles>>

\* SET of what was loaded, which may be older than the row by now.
Backfill(r, s) ==
  /\ flight[r][s] \notin {NoRow, Loading}
  /\ cache' = [cache EXCEPT ![s] = flight[r][s]]
  /\ excused' = IF flight[r][s] = Row(s) THEN excused \ {s} ELSE excused \cup {s}
  /\ Fly(r, s, NoRow)
  /\ UNCHANGED <<victimVars, shelterVars, outbox, procVars, toggles>>

\* mutant: entries are written without a TTL
Persist(s) == cache[s] # NoRow /\ UNCHANGED vars
\* The TTL runs out (or an entry that does not decode is evicted).
Expire(s) ==
  /\ cache[s] # NoRow
  /\ Drop(s)
  /\ UNCHANGED <<victimVars, shelterVars, outbox, procVars, flight, toggles>>

-----------------------------------------------------------------------------
(* The specification.                                                       *)

Init ==
  /\ vStatus = [v \in Victims |-> "absent"]
  /\ vShelter = [v \in Victims |-> None]
  /\ sStatus = [s \in Shelters |-> "absent"]
  /\ occupancy = [s \in Shelters |-> 0]
  /\ outbox = {}
  /\ pc = [p \in Procs |-> "idle"]
  /\ req = [p \in Procs |-> NoReq]
  /\ cache = [s \in Shelters |-> NoRow]
  /\ flight = [r \in Replicas |-> [s \in Shelters |-> NoRow]]
  /\ excused = {}
  /\ toggles = 0

Registration ==
  \/ \E v \in Victims : CreateVictim(v)
  \/ \E s \in Shelters : CreateShelter(s)

Handler(p) ==
  \/ \E v \in Victims, s \in Shelters : LockVictim(p, v, s)
  \/ \E s \in Shelters, st \in OpenOrClosed : UpdateStatus(p, s, st)
  \/ AdmitTx(p) \/ Refuse(p) \/ Commit(p) \/ Invalidate(p) \/ Crash(p)

GetOrLoad(r, s) ==
  Miss(r, s) \/ Load(r, s) \/ LoadFails(r, s) \/ Backfill(r, s)

Next ==
  \/ Registration
  \/ \E p \in Procs : Handler(p)
  \/ \E r \in Replicas, s \in Shelters : GetOrLoad(r, s)
  \/ \E s \in Shelters : Expire(s)

Spec == Init /\ [][Next]_vars

\* Only the clock is counted on: loads in flight end (they carry the request's
\* deadline) and entries reach their TTL.
FairSpec ==
  /\ Spec
  /\ \A r \in Replicas, s \in Shelters : WF_vars(Load(r, s) \/ LoadFails(r, s) \/ Backfill(r, s))
  /\ \A s \in Shelters : WF_vars(Expire(s))

-----------------------------------------------------------------------------
(* Properties.                                                              *)

Rows == [status : OpenOrClosed, occupancy : Nat]

\* Types; a failed lookup never becomes a cache entry (shelter/cache.go, GetOrLoad).
TypeOK ==
  /\ vStatus \in [Victims -> {"absent", "registered", "sheltered"}]
  /\ vShelter \in [Victims -> Shelters \cup {None}]
  /\ sStatus \in [Shelters -> OpenOrClosed \cup {"absent"}]
  /\ occupancy \in [Shelters -> Nat]
  /\ outbox \subseteq [victim : Victims, shelter : Shelters, occupancy : Nat]
  /\ pc \in [Procs -> {"idle", "admit", "commit", "invalidate"}]
  /\ req \in [Procs -> [victim : Victims \cup {None}, shelter : Shelters \cup {None},
                        occupancy : Nat]]
  /\ cache \in [Shelters -> Rows \cup {NoRow}]
  /\ flight \in [Replicas -> [Shelters -> Rows \cup {NoRow, Loading}]]
  /\ excused \subseteq Shelters
  /\ toggles \in 0 .. MaxToggles

Placed(s) == {v \in Victims : vShelter[v] = s}

\* However many operators place victims at once, no shelter has more people in it
\* than beds (AdmitTx: "two concurrent admissions can never both .. take the last
\* bed"), counted by the victims themselves and not by the counter.
NoOverflow == \A s \in Shelters : Cardinality(Placed(s)) <= Capacity[s]

\* The counter that guards admission equals the number of victims who are there:
\* Assign moves both in one commit and never places a victim twice.
OccupancyExact == \A s \in Shelters : occupancy[s] = Cardinality(Placed(s))

\* The events of a shelter are one per victim placed in it and count its occupancy
\* from 1 to what it is now, without a gap or a repetition (Assign reads the
\* shelter back inside the transaction).
AnnouncedExactly ==
  \A s \in Shelters : LET E == {e \in outbox : e.shelter = s} IN
    /\ {e.victim : e \in E} = Placed(s)
    /\ {e.occupancy : e \in E} = 1 .. occupancy[s]
    /\ Cardinality(E) = occupancy[s]

\* Nobody is admitted to a shelter that is closed at the time of the commit, even
\* if it was open when the bed was claimed.
ClosedAdmitsNobody ==
  [][\A s \in Shelters : occupancy'[s] > occupancy[s] => sStatus[s] = "open"]_vars

\* A cache entry that differs from the row is one a handler is about to delete, or
\* one of the cases platform/cache names: a lost deletion or a late backfill.
StaleExplained ==
  \A s \in Shelters :
    cache[s] \notin {NoRow, Row(s)} =>
      s \in excused \/ \E p \in Procs : pc[p] = "invalidate" /\ req[p].shelter = s

\* Once the writes are over, no reader sees an outdated shelter for ever: whatever
\* was missed, the TTL repairs it ("bounded staleness instead of permanent
\* corruption").
Converges == <>[](\A s \in Shelters : cache[s] \in {NoRow, Row(s)})

Ledger == INSTANCE CapacityLedger WITH
  Claims <- Victims, Pools <- Shelters, used <- occupancy, pool <- vShelter,
  size <- [v \in Victims |-> IF vStatus[v] = "sheltered" THEN 1 ELSE 0]

\* Intake implements the ledger: beds are taken one victim at a time, each victim
\* at most once, and only where there is room.
ImplementsLedger == Ledger!Spec
=============================================================================
