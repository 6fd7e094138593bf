------------------------------ MODULE ApiKeys ------------------------------
(***************************************************************************)
(* API keys (auth/service.py, db/api_key_repo.py) and the HTTP writes they  *)
(* guard (api/auth_deps.py).  A task is a chat reader handling a tell or an *)
(* HTTP request; the bot has one chat reader, which awaits each tell before *)
(* it takes the next, and any number of requests.  Keys are generated and   *)
(* revoked by tells only.  The guarded write modelled is unregister, whose  *)
(* deletion of the player's row deletes the player's keys; every other      *)
(* guarded write passes the same two steps.  Registration needs no key.     *)
(***************************************************************************)
EXTENDS Integers, FiniteSets

CONSTANTS
    Players,
    Keys,       \* the tokens that may be minted
    Readers,    \* tasks that handle tells
    Requests,   \* tasks that are HTTP requests
    Owner,      \* AO_OWNER_CHARACTER, or Nobody when it is not set
    Nobody

ASSUME KeysAssumption ==
    /\ IsFiniteSet(Keys) /\ IsFiniteSet(Readers)
    /\ Readers \cap Requests = {}
    /\ Nobody \notin Players /\ Owner \in Players \cup {Nobody}

VARIABLES
    users,    \* rows of market_users
    holder,   \* the player of each row of api_keys; Nobody: no such row
    revoked,  \* keys whose row had revoked_at set
    minted,   \* keys generated so far: a token is never generated twice
    newest,   \* the key each player was given last, for the properties only
    task      \* where each task is, for whom it acts, and on whose authority

rows == <<users, holder, revoked, minted, newest>>
vars == <<users, holder, revoked, minted, newest, task>>

Tasks == Readers \cup Requests
Step == {"idle", "regCheck", "regInsert", "unregCheck", "unregCascade",
         "genCheck", "genRegister", "genRevoke", "genCreate", "revoke", "scope"}
Idle == [pc |-> "idle", player |-> Nobody, by |-> Nobody]

ActiveKeys(p) == {k \in Keys \ revoked : holder[k] = p}

TypeOK ==
    /\ users \subseteq Players
    /\ holder \in [Keys -> Players \cup {Nobody}]
    /\ revoked \subseteq minted /\ minted \subseteq Keys
    /\ \A k \in Keys \ minted : holder[k] = Nobody
    /\ newest \in [Players -> Keys \cup {Nobody}]
    /\ task \in [Tasks -> [pc : Step, player : Players \cup {Nobody},
                           by : Players \cup {Nobody}]]
    /\ \A t \in Tasks : task[t].pc # "idle" => task[t].player \in Players

Init ==
    /\ users = {}
    /\ holder = [k \in Keys |-> Nobody]
    /\ revoked = {} /\ minted = {}
    /\ newest = [p \in Players |-> Nobody]
    /\ task = [t \in Tasks |-> Idle]

-----------------------------------------------------------------------------
At(t, pc) == task[t].pc = pc
Goto(t, pc) == task' = [task EXCEPT ![t].pc = pc]
\* Mutant: the task's step is not reset.
EndHalf(t) == task' = [task EXCEPT ![t].player = Nobody]
End(t) == task' = [task EXCEPT ![t] = Idle]
Accept(t, pc, p, by) ==
    /\ At(t, "idle")
    /\ task' = [task EXCEPT ![t] = [pc |-> pc, player |-> p, by |-> by]]
    /\ UNCHANGED rows

(* What a task is asked to do.                                              *)

\* A tell: market register, unregister confirm, apikey generate, apikey revoke
\* confirm.  The sender acts on their own behalf.
Tell(t) ==
    /\ t \in Readers
    /\ \E p \in Players, pc \in {"regCheck", "unregCheck", "genCheck", "revoke"} :
         Accept(t, pc, p, p)

\* POST /players/{player}:register, open to anyone.
PostRegister(t) ==
    /\ t \in Requests
    /\ \E p \in Players : Accept(t, "regCheck", p, Nobody)

\* POST /players/{player}:unregister with a key: get_by_hash finds a row that is
\* not revoked.  A key it does not find is a 401 and changes nothing.
Authenticate(t) ==
    /\ t \in Requests
    /\ \E k \in Keys \ revoked, p \in Players :
         holder[k] # Nobody /\ Accept(t, "scope", p, holder[k])

\* Mutant: any valid key will do.
RequireAnyKey(t) == At(t, "scope") /\ Goto(t, "unregCheck") /\ UNCHANGED rows

\* The key's use is stamped and committed and the admin flag read before the
\* scope is compared; the key may have been revoked or deleted since.
RequirePlayerKey(t) ==
    /\ At(t, "scope")
    /\ IF task[t].by \in {task[t].player, Owner} THEN Goto(t, "unregCheck") ELSE End(t)
    /\ UNCHANGED rows

-----------------------------------------------------------------------------
(* MarketService.register and unregister, the parts keys depend on.         *)

RegisterCheck(t) ==
    /\ At(t, "regCheck")
    /\ IF task[t].player \in users THEN End(t) ELSE Goto(t, "regInsert")
    /\ UNCHANGED rows

\* The primary key refuses a player registered meanwhile.
AddUser(p) == users' = users \cup {p}

RegisterInsert(t) ==
    /\ At(t, "regInsert")
    /\ AddUser(task[t].player)
    /\ End(t)
    /\ UNCHANGED <<holder, revoked, minted, newest>>

UnregisterCheck(t) ==
    /\ At(t, "unregCheck")
    /\ IF task[t].player \in users THEN Goto(t, "unregCascade") ELSE End(t)
    /\ UNCHANGED rows

\* Mutant: the keys of the deleted player stay.
UnregisterKeepsKeys(t) ==
    /\ At(t, "unregCascade")
    /\ users' = users \ {task[t].player}
    /\ End(t)
    /\ UNCHANGED <<holder, revoked, minted, newest>>

UnregisterCascade(t) ==
    LET p == task[t].player IN
    /\ At(t, "unregCascade")
    /\ users' = users \ {p}
    /\ holder' = [k \in Keys |-> IF holder[k] = p THEN Nobody ELSE holder[k]]
    /\ End(t)
    /\ UNCHANGED <<revoked, minted, newest>>

-----------------------------------------------------------------------------
(* AuthService.generate_key and revoke_keys: each call of a repository      *)
(* commits on its own.                                                      *)

\* Mutant: a registered player's keys are not revoked first.
GenerateCheckOnly(t) ==
    /\ At(t, "genCheck")
    /\ Goto(t, IF task[t].player \in users THEN "genCreate" ELSE "genRegister")
    /\ UNCHANGED rows

GenerateCheck(t) ==
    /\ At(t, "genCheck")
    /\ Goto(t, IF task[t].player \in users THEN "genRevoke" ELSE "genRegister")
    /\ UNCHANGED rows

\* Refused if the player was registered meanwhile, and then the tell fails.
GenerateRegister(t) ==
    /\ At(t, "genRegister")
    /\ AddUser(task[t].player)
    /\ IF task[t].player \in users THEN End(t) ELSE Goto(t, "genRevoke")
    /\ UNCHANGED <<holder, revoked, minted, newest>>

\* Mutant: the condition of the update matches no row.
RevokeNone(p) == revoked' = revoked
RevokeAll(p) == revoked' = revoked \cup ActiveKeys(p)

GenerateRevoke(t) ==
    /\ At(t, "genRevoke")
    /\ RevokeAll(task[t].player)
    /\ Goto(t, "genCreate")
    /\ UNCHANGED <<users, holder, minted, newest>>

\* Mutant: there is no foreign key.
GenerateCreateForAny(t) ==
    LET p == task[t].player IN
    /\ At(t, "genCreate")
    /\ \E k \in Keys \ minted :
         /\ minted' = minted \cup {k}
         /\ holder' = [holder EXCEPT ![k] = p] /\ newest' = [newest EXCEPT ![p] = k]
    /\ End(t)
    /\ UNCHANGED <<users, revoked>>

\* The foreign key refuses a player unregistered meanwhile, and the tell fails.
GenerateCreate(t) ==
    LET p == task[t].player IN
    /\ At(t, "genCreate")
    /\ \E k \in Keys \ minted :
         /\ minted' = minted \cup {k}
         /\ IF p \in users
            THEN holder' = [holder EXCEPT ![k] = p] /\ newest' = [newest EXCEPT ![p] = k]
            ELSE UNCHANGED <<holder, newest>>
    /\ End(t)
    /\ UNCHANGED <<users, revoked>>

RevokeKeys(t) ==
    /\ At(t, "revoke")
    /\ RevokeAll(task[t].player)
    /\ End(t)
    /\ UNCHANGED <<users, holder, minted, newest>>

-----------------------------------------------------------------------------
\* The process dies and starts again: the tables are what it keeps.
Crash ==
    /\ \E t \in Tasks : ~At(t, "idle")
    /\ task' = [t \in Tasks |-> Idle]
    /\ UNCHANGED rows

TaskStep(t) ==
    \/ Tell(t) \/ PostRegister(t) \/ Authenticate(t) \/ RequirePlayerKey(t)
    \/ RegisterCheck(t) \/ RegisterInsert(t)
    \/ UnregisterCheck(t) \/ UnregisterCascade(t)
    \/ GenerateCheck(t) \/ GenerateRegister(t) \/ GenerateRevoke(t) \/ GenerateCreate(t)
    \/ RevokeKeys(t)

Next == Crash \/ \E t \in Tasks : TaskStep(t)

Spec == Init /\ [][Next]_vars

-----------------------------------------------------------------------------
(* auth/README.md: "one active key per player, enforced here rather than at *)
(* the DB level".  generate_key revokes and creates in two transactions, so *)
(* as many keys can be active as tasks can be between the two: one, while   *)
(* one chat reader handles every tell.                                      *)
OneActiveKey == \A p \in Players : Cardinality(ActiveKeys(p)) <= Cardinality(Readers)

(* With the one chat reader, the key that works is the one the player was   *)
(* given last, whatever requests unregister or register meanwhile and       *)
(* wherever the process dies: generate_key never leaves an older key alive. *)
OnlyNewestWorks ==
    Cardinality(Readers) = 1 =>
        \A p \in Players : ActiveKeys(p) \subseteq {newest[p]}

(* A key outlives neither its player's registration nor a race between      *)
(* generate_key and unregister: a row of api_keys has a row of market_users.*)
HoldersRegistered == \A k \in Keys : holder[k] \in users \cup {Nobody}

(* A player is unregistered only on that player's own authority or the      *)
(* owner's, through every path that leads to unregister_cascade.            *)
UnregistersScoped ==
    [][\A p \in users \ users' : \E t \in Tasks :
          task[t].player = p /\ task[t].by \in {p, Owner} \ {Nobody}]_vars

(* generate_key's four commits, the cascades and the revocations implement  *)
(* the key store of KeySpec: a reader that has revoked has, when it stores  *)
(* the new key, still room for it and a key nobody ever had, and a key that *)
(* was revoked or went with its player never works again.                   *)
Issuing == INSTANCE KeySpec WITH
    Allowed <- {ks \in SUBSET Keys : Cardinality(ks) <= Cardinality(Readers)},
    members <- users, used <- minted, works <- [p \in Players |-> ActiveKeys(p)]

ImplementsIssuing == Issuing!Spec
=============================================================================
