------------------------------ MODULE Sessions ------------------------------
(***************************************************************************)
(* Users, the tokens they carry, and what a token may do.                  *)
(*                                                                         *)
(* A token repeats the role and the bindings its user's row had when Login *)
(* read it; no request looks at the row again.  An admin replaces role and *)
(* bindings together; the demo seed, run at every boot, adds bindings on   *)
(* its own.  Time is counted in steps towards a token's expiry.            *)
(***************************************************************************)
EXTENDS Integers, FiniteSets

CONSTANTS
  Users, UnitIds, Shelters,
  Demo,        \* the roles the seed's accounts are created with
  DemoUnit, DemoShelter,
  Unbound,     \* NULL in a row, "" in a token
  ExpiryHours,
  MaxTokens, MaxAssigns \* bounds: live tokens and logins under way; changes by admins

ASSUME SessionsAssumption ==
  /\ DOMAIN Demo \subseteq Users
  /\ \A u \in DOMAIN Demo :
       Demo[u] \in {"citizen", "responder", "shelter_manager", "operator", "admin"}
  /\ DemoUnit \in UnitIds
  /\ DemoShelter \in Shelters
  /\ Unbound \notin UnitIds \cup Shelters
  /\ ExpiryHours \in Nat \ {0}
  /\ MaxAssigns \in Nat

VARIABLES
  users,       \* the registered ones
  role, unitId, shelterId, \* users rows
  reading,     \* claims read by a login that has not answered, per user
  sessions,    \* live ones: claims and the time left
  assigned,    \* changes by admins so far
  given        \* history: what registration, the seed or the last admin gave each user

userRows == <<users, role, unitId, shelterId>>
sessionVars == <<userRows, reading, sessions, assigned, given>>

All == {"citizen", "responder", "shelter_manager", "operator", "admin"}
Claims(u) == [user |-> u, role |-> role[u], unit |-> unitId[u], shelter |-> shelterId[u]]
NoLogin == [user |-> Unbound, role |-> "citizen", unit |-> Unbound, shelter |-> Unbound]
Room ==
  Cardinality(sessions) + Cardinality({u \in Users : reading[u] # NoLogin}) < MaxTokens

-----------------------------------------------------------------------------
(* Who may do what: RequireRole on the route, then ownership in the handler. *)

\* The roles that the route of each write admits.  Every token may report an incident or
\* register a victim; those routes are left out, and the reads.
Gate ==
  [heartbeat  |-> {"responder", "operator", "admin"},       \* for a unit
   advance    |-> {"responder", "operator", "admin"},       \* a dispatch of a unit
   toggle     |-> {"shelter_manager", "operator", "admin"}, \* a shelter, open or closed
   assign     |-> {"shelter_manager", "operator", "admin"}, \* a victim to a shelter
   coordinate |-> {"operator", "admin"}, \* dispatches, statuses, bookings
   administer |-> {"admin"}]             \* registries and roles
RequireRole(c, op) == c.role \in Gate[op]

Unbounded(c) == c.role \in {"operator", "admin"}
OwnsUnit(c, r) ==
  \/ Unbounded(c)
  \/ c.role = "responder" /\ c.unit # Unbound /\ c.unit = r
OwnsShelter(c, s) ==
  \/ Unbounded(c)
  \/ c.role = "shelter_manager" /\ c.shelter # Unbound /\ c.shelter = s

\* What the handler asks after the route: nothing about the shelter a victim goes to.
Owns(c, op, x) ==
  CASE op \in {"heartbeat", "advance"} -> OwnsUnit(c, x)
    [] op = "toggle" -> OwnsShelter(c, x)
    [] OTHER -> TRUE

Acts ==
  ({"heartbeat", "advance"} \X UnitIds) \cup ({"toggle", "assign"} \X Shelters)
    \cup ({"coordinate", "administer"} \X {Unbound})
Powers(c) == {a \in Acts : RequireRole(c, a[1]) /\ Owns(c, a[1], a[2])}

-----------------------------------------------------------------------------
(* Accounts.                                                                *)

\* mutant: a login also renews what its user has
Renewed(T, c) ==
  {[t EXCEPT !.left = IF t.claims.user = c.user THEN ExpiryHours ELSE t.left] : t \in T}
    \cup {[claims |-> c, left |-> ExpiryHours]}
Issued(T, c) == T \cup {[claims |-> c, left |-> ExpiryHours]}

Register(u) ==
  /\ u \notin users
  /\ Room
  /\ users' = users \cup {u}
  /\ sessions' = Issued(sessions, [NoLogin EXCEPT !.user = u])
  /\ UNCHANGED <<role, unitId, shelterId, reading, assigned, given>>

\* GetByEmail; the password is checked next.
Login(u) ==
  /\ u \in users
  /\ reading[u] = NoLogin
  /\ Room
  /\ reading' = [reading EXCEPT ![u] = Claims(u)]
  /\ UNCHANGED <<userRows, sessions, assigned, given>>

GenerateToken(u) ==
  /\ reading[u] # NoLogin
  /\ sessions' = Issued(sessions, reading[u])
  /\ reading' = [reading EXCEPT ![u] = NoLogin]
  /\ UNCHANGED <<userRows, assigned, given>>

\* The wrong password, or the client is gone.
LoginFails(u) ==
  /\ reading[u] # NoLogin
  /\ reading' = [reading EXCEPT ![u] = NoLogin]
  /\ UNCHANGED <<userRows, sessions, assigned, given>>

Grant(u, k, r, s) ==
  [user |-> u, role |-> k,
   unit |-> IF k = "responder" THEN r ELSE Unbound,
   shelter |-> IF k = "shelter_manager" THEN s ELSE Unbound]

\* Role and bindings are replaced together, by one UPDATE.
AssignRole(u, k, r, s) ==
  /\ \E t \in sessions : <<"administer", Unbound>> \in Powers(t.claims)
  /\ u \in users
  /\ k = "responder" => r # Unbound
  /\ k = "shelter_manager" => s # Unbound
  /\ role' = [role EXCEPT ![u] = k]
  /\ unitId' = [unitId EXCEPT ![u] = Grant(u, k, r, s).unit]
  /\ shelterId' = [shelterId EXCEPT ![u] = Grant(u, k, r, s).shelter]
  /\ given' = [given EXCEPT ![u] = Grant(u, k, r, s)]
  /\ assigned < MaxAssigns
  /\ assigned' = assigned + 1
  /\ UNCHANGED <<users, reading, sessions>>

\* The seed, at every boot and while other servers run: accounts that are missing, one
\* by one, then bindings that are NULL, whatever the role has become since.
SeedUser(u) ==
  /\ u \in DOMAIN Demo \ users
  /\ users' = users \cup {u}
  /\ role' = [role EXCEPT ![u] = Demo[u]]
  /\ given' = [given EXCEPT ![u] = Grant(u, Demo[u], DemoUnit, DemoShelter)]
  /\ UNCHANGED <<unitId, shelterId, reading, sessions, assigned>>

\* mutant: the binding is set again at every boot
SeedAnyUnit(u) ==
  /\ u \in users /\ Demo[u] = "responder"
  /\ unitId' = [unitId EXCEPT ![u] = DemoUnit]
  /\ UNCHANGED <<users, role, shelterId, reading, sessions, assigned, given>>
SeedUnitBinding(u) ==
  /\ u \in users /\ Demo[u] = "responder"
  /\ unitId[u] = Unbound
  /\ unitId' = [unitId EXCEPT ![u] = DemoUnit]
  /\ UNCHANGED <<users, role, shelterId, reading, sessions, assigned, given>>

SeedShelterBinding(u) ==
  /\ u \in users /\ Demo[u] = "shelter_manager"
  /\ shelterId[u] = Unbound
  /\ shelterId' = [shelterId EXCEPT ![u] = DemoShelter]
  /\ UNCHANGED <<users, role, unitId, reading, sessions, assigned, given>>

\* mutant: the expiry is not verified
Everlasting(T) == T
\* ExpiresAt, checked by ValidateToken.
Aged(T) == {[t EXCEPT !.left = t.left - 1] : t \in {x \in T : x.left > 1}}

TokensAge ==
  /\ sessions # {}
  /\ sessions' = Aged(sessions)
  /\ UNCHANGED <<userRows, reading, assigned, given>>

-----------------------------------------------------------------------------
SessionsInit ==
  /\ users = {}
  /\ role = [u \in Users |-> "citizen"]
  /\ unitId = [u \in Users |-> Unbound]
  /\ shelterId = [u \in Users |-> Unbound]
  /\ reading = [u \in Users |-> NoLogin]
  /\ sessions = {}
  /\ assigned = 0
  /\ given = [u \in Users |-> Grant(u, "citizen", Unbound, Unbound)]

SessionsNext ==
  \/ \E u \in Users :
       \/ Register(u) \/ Login(u) \/ GenerateToken(u) \/ LoginFails(u)
       \/ \E k \in All, r \in UnitIds \cup {Unbound}, s \in Shelters \cup {Unbound} :
            AssignRole(u, k, r, s)
  \/ \E u \in DOMAIN Demo : SeedUser(u) \/ SeedUnitBinding(u) \/ SeedShelterBinding(u)
  \/ TokensAge

SessionsSpec == SessionsInit /\ [][SessionsNext]_sessionVars

\* The clock runs.
FairSessions == SessionsSpec /\ WF_sessionVars(TokensAge)

-----------------------------------------------------------------------------
(* Properties.                                                              *)

ClaimSets ==
  [user : Users \cup {Unbound}, role : All,
   unit : UnitIds \cup {Unbound}, shelter : Shelters \cup {Unbound}]

SessionsTypeOK ==
  /\ users \subseteq Users
  /\ role \in [Users -> All]
  /\ unitId \in [Users -> UnitIds \cup {Unbound}]
  /\ shelterId \in [Users -> Shelters \cup {Unbound}]
  /\ reading \in [Users -> ClaimSets]
  /\ sessions \subseteq [claims : ClaimSets, left : 1 .. ExpiryHours]
  /\ assigned \in 0 .. MaxAssigns
  /\ given \in [Users -> ClaimSets]

\* AssignRole is "the ONLY way a privileged role is ever granted", and "a leftover unit_id
\* can never grant access after a demotion" (service.go:100-108): a row allows what was last
\* given to its user, however boots of the seed come in between; a seeded account may still
\* lack its binding.
AsGiven ==
  \A u \in users :
    \/ Powers(Claims(u)) = Powers(given[u])
    \/ /\ Powers(Claims(u)) \subseteq Powers(given[u])
       /\ u \in DOMAIN Demo /\ role[u] = Demo[u]
       /\ unitId[u] = Unbound /\ shelterId[u] = Unbound

\* Neither u's row nor a login of u under way allows act a, and the tokens of u that do.
Revoked(u, a) == a \notin Powers(Claims(u)) \cup Powers(reading[u])
Conferring(u, a) == {t \in sessions : t.claims.user = u /\ a \in Powers(t.claims)}

\* "If an admin reassigns a responder to a different unit, the old token keeps the old
\* binding until it expires" (jwt.go:24-26), and no longer: once an act is revoked, by
\* demotion or by rebinding, no later login, registration, boot or change of other users
\* brings it back or prolongs a token that allows it, and time takes it off each of them.
OnlyAges ==
  [][\A u \in users : \A a \in Acts : Revoked(u, a) /\ a \notin Powers(Claims(u))' =>
       /\ Revoked(u, a)'
       /\ \A t \in Conferring(u, a)' : \E s \in Conferring(u, a) :
            /\ t.claims = s.claims /\ t.left <= s.left
            /\ TokensAge => t.left = s.left - 1]_sessionVars

\* "Staleness is therefore bounded by token lifetime" (jwt.go:26-27): once a user is a
\* citizen for good, no token of theirs confers anything else for ever.
DemotionLands ==
  \A u \in Users :
    <>[](role[u] = "citizen") =>
      <>[](\A t \in sessions : t.claims.user = u => t.claims.role = "citizen")
=============================================================================
