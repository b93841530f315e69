-------------------------- MODULE HouseholdPeople --------------------------
(***************************************************************************)
(* People, their memberships and accounts (services/api/src/app.ts) and    *)
(* the operator's transition from a synthetic household to a live one      *)
(* (services/api/src/people/local-bootstrap.ts).  A handler reads the      *)
(* authority of its actor first, outside the transaction; then it takes    *)
(* the lock of the installation row, checks and writes.  Capabilities      *)
(* follow the role, since administrators have exactly their preset and     *)
(* nobody else may have a managing capability.  The routes give each       *)
(* membership an account of its own, so one index serves both rows.  The   *)
(* revision that a request expects is the client's choice: one that is not *)
(* the row's ends the transaction, like any other error, in RollBack.      *)
(***************************************************************************)
CONSTANTS
  People,        \* persons of all households
  HouseholdOf,   \* the household of each person
  Owner,         \* the person who claimed the installation
  Source, Live,  \* households of the transition
  LiveOwner,     \* owner of the live household
  Handlers       \* requests under way

VARIABLES
  member,     \* role in the membership of each person, or "none"
  account,    \* accounts: login and disabled_at
  transition, \* local_bootstrap_transitions
  handler,    \* each request between the reading of its authority and its end
  lock        \* the request that holds the installation row

vars == <<member, account, transition, handler, lock>>

Free == "free"

ASSUME TransitionHouseholds ==
  /\ Owner \in People /\ LiveOwner \in People
  /\ HouseholdOf[LiveOwner] = Live /\ Source # Live
ASSUME Unlocked == Free \notin Handlers

Managers == {"installation_admin", "household_admin"}
Roles == Managers \cup {"member"}
\* pending: invited, without a password.
Account == [login : {"none", "pending", "active"}, disabled : BOOLEAN]
NoAccount == [login |-> "none", disabled |-> FALSE]
Locking == {"account", "role", "disable", "enable", "reissue"}
\* owner: the actor was an owner when the request read its authority.
Idle == [step |-> "idle", household |-> HouseholdOf[Owner], owner |-> FALSE,
         op |-> "role", target |-> Owner, role |-> "member"]
Handler == [step : {"idle", "ask", "write"}, household : {HouseholdOf[p] : p \in People},
            owner : BOOLEAN, op : Locking, target : People, role : Roles]

Init ==
  /\ member = [p \in People |-> IF p = Owner THEN "installation_admin" ELSE "none"]
  /\ account = [p \in People |-> IF p = Owner
                   THEN [login |-> "active", disabled |-> FALSE] ELSE NoAccount]
  /\ transition = "none"
  /\ handler = [h \in Handlers |-> Idle]
  /\ lock = Free

-----------------------------------------------------------------------------
Exists(p) == member[p] # "none"
Usable(p) == account[p].login = "active" /\ ~account[p].disabled
IsOwner(p) == member[p] = "installation_admin"
UsableOwner(p) == IsOwner(p) /\ Usable(p)
UsableManager(p) == member[p] \in Managers /\ Usable(p)

OtherOwner(p) == \E q \in People \ {p} : UsableOwner(q)

\* Faulty variant: a role is taken for somebody who can act.
OtherManagerByRole(p) == \E q \in People \ {p} :
  HouseholdOf[q] = HouseholdOf[p] /\ member[q] \in Managers

OtherManager(p) == \E q \in People \ {p} :
  HouseholdOf[q] = HouseholdOf[p] /\ UsableManager(q)

\* Faulty variant: transactions of two administrators overlap.
Overlapping(h) == TRUE

\* SELECT ... FROM installations ... FOR UPDATE.
Serialized(h) == lock \in {Free, h}

-----------------------------------------------------------------------------
(* A request reads its authority: only managers have the capabilities. *)

Request(h, actor) ==
  /\ handler[h].step = "idle" /\ UsableManager(actor)
  /\ handler' = [handler EXCEPT ![h].step = "ask", ![h].owner = IsOwner(actor),
                                ![h].household = HouseholdOf[actor]]
  /\ UNCHANGED <<member, account, transition, lock>>

End(h) == handler' = [handler EXCEPT ![h] = Idle]

\* assertGrantAuthority: only owners make owners.
MayGrant(h, role) == role = "installation_admin" => handler[h].owner

\* A new person, with a login or without; managers need one.
CreatePerson(h) ==
  /\ handler[h].step = "ask"
  /\ \E p \in People, role \in Roles, login \in {"none", "pending", "active"} :
       /\ ~Exists(p) /\ HouseholdOf[p] = handler[h].household /\ MayGrant(h, role)
       /\ role \in Managers => login # "none"
       /\ member' = [member EXCEPT ![p] = role]
       /\ account' = [account EXCEPT ![p].login = login]
  /\ End(h)
  /\ UNCHANGED <<transition, lock>>

-----------------------------------------------------------------------------
(* Transactions under the lock: the checks ... *)

\* The last usable owner and the last usable manager of a household stay.
KeepsOwner(p)   == UsableOwner(p) => OtherOwner(p)
KeepsManager(p) == UsableManager(p) => OtherManager(p)

\* An account that is an owner's needs an owner to change it.
MayTouch(h, p) == IsOwner(p) => handler[h].owner

Permitted(h, op, p, role) ==
  CASE op = "account" -> account[p].login = "none" /\ MayGrant(h, role)
    [] op = "role" ->
         /\ MayGrant(h, role) /\ MayTouch(h, p)
         /\ role \in Managers => Usable(p)
         /\ role # "installation_admin" => KeepsOwner(p)
         /\ role \notin Managers => KeepsManager(p)
    [] op = "disable" ->
         /\ account[p].login # "none" /\ MayTouch(h, p)
         /\ IsOwner(p) /\ ~account[p].disabled => OtherOwner(p)
         /\ KeepsManager(p)
    [] op = "enable"  -> account[p].login # "none" /\ MayTouch(h, p)
    [] op = "reissue" -> /\ account[p] = [login |-> "pending", disabled |-> FALSE]
                         /\ MayTouch(h, p)

\* The rows that the transaction will write are as it saw them until it ends.
LockAndCheck(h, op, p, role) ==
  /\ handler[h].step = "ask" /\ Serialized(h)
  /\ Exists(p) /\ HouseholdOf[p] = handler[h].household
  /\ op \in {"disable", "enable", "reissue"} => role = "member" \* none in the body
  /\ Permitted(h, op, p, role)
  /\ lock' = h
  /\ handler' = [handler EXCEPT ![h].step = "write", ![h].op = op,
                                ![h].target = p, ![h].role = role]
  /\ UNCHANGED <<member, account, transition>>

(* ... and the writes. *)

UpdateMembership(r) ==
  /\ r.op = "role"
  /\ member' = [member EXCEPT ![r.target] = r.role]
  /\ UNCHANGED account

\* The account comes with an invitation or with a password.
CreateAccount(r) ==
  /\ r.op = "account"
  /\ member' = [member EXCEPT ![r.target] = r.role]
  /\ \E login \in {"pending", "active"} :
       account' = [account EXCEPT ![r.target].login = login]

SetStatus(r) ==
  /\ r.op \in {"disable", "enable"}
  /\ account' = [account EXCEPT ![r.target].disabled = (r.op = "disable")]
  /\ UNCHANGED member

\* One invitation takes the place of another.
ReissueInvitation(r) == r.op = "reissue" /\ UNCHANGED <<member, account>>

Write(h) ==
  LET r == handler[h]
  IN  /\ r.step = "write"
      /\ UpdateMembership(r) \/ CreateAccount(r) \/ SetStatus(r) \/ ReissueInvitation(r)
      /\ lock' = Free
      /\ End(h)
      /\ UNCHANGED transition

\* A check that fails, another revision than the one expected, any other error, or
\* the end of the process: the transaction leaves nothing.
RollBack(h) ==
  /\ handler[h].step # "idle"
  /\ End(h)
  /\ lock' = IF lock = h THEN Free ELSE lock
  /\ UNCHANGED <<member, account, transition>>

-----------------------------------------------------------------------------
(* Invitations and the transition to a live household *)

\* A transaction that writes to an account has locked its row.
RowLocked(p) == \E h \in Handlers :
  /\ handler[h].step = "write" /\ handler[h].target = p
  /\ handler[h].op \in {"disable", "enable", "reissue"}

\* Without the lock of the installation.
AcceptInvitation(p) ==
  /\ account[p].login = "pending" /\ ~account[p].disabled /\ ~RowLocked(p)
  /\ account' = [account EXCEPT ![p].login = "active"]
  /\ UNCHANGED <<member, transition, handler, lock>>

\* runLocalBootstrap: the people of the live household, with invitations; the
\* owner and the other managers have a login.
Prepare ==
  /\ transition = "none"
  /\ \E role \in [People -> Roles], invited \in SUBSET People :
       LET new == {p \in People : HouseholdOf[p] = Live}
       IN  /\ \A p \in new : ~Exists(p)
           /\ \A p \in new : role[p] = "installation_admin" <=> p = LiveOwner
           /\ \A p \in new : role[p] \in Managers => p \in invited
           /\ \A p \in People \ new : role[p] = "member" /\ p \notin invited
           /\ member' = [p \in People |-> IF p \in new
                THEN role[p] ELSE member[p]]
           /\ account' = [p \in People |-> IF p \in invited
                THEN [login |-> "pending", disabled |-> FALSE] ELSE account[p]]
  /\ transition' = "prepared"
  /\ UNCHANGED <<handler, lock>>

\* The new owner has accepted and can log in (the session that proves it only
\* narrows the guard); then all accounts of the source are disabled.
Finalize ==
  /\ transition = "prepared" /\ lock = Free /\ UsableOwner(LiveOwner)
  /\ account' = [p \in People |->
       [account[p] EXCEPT !.disabled =
         @ \/ (HouseholdOf[p] = Source /\ account[p].login # "none")]]
  /\ transition' = "finalized"
  /\ UNCHANGED <<member, handler, lock>>

-----------------------------------------------------------------------------
Next ==
  \/ \E h \in Handlers : \/ CreatePerson(h) \/ Write(h) \/ RollBack(h)
                         \/ \E actor \in People : Request(h, actor)
                         \/ \E op \in Locking, p \in People, role \in Roles :
                              LockAndCheck(h, op, p, role)
  \/ \E p \in People : AcceptInvitation(p)
  \/ Prepare \/ Finalize

Spec == Init /\ [][Next]_vars

-----------------------------------------------------------------------------
(* Properties *)

\* Rows and requests keep their shapes.
TypeOK ==
  /\ member \in [People -> Roles \cup {"none"}]
  /\ account \in [People -> Account]
  /\ transition \in {"none", "prepared", "finalized"}
  /\ handler \in [Handlers -> Handler]
  /\ lock \in Handlers \cup {Free}

\* Somebody who can log in owns the installation, whatever administrators do to
\* each other at the same time and whenever the source household is shut down.
OwnerRemains == \E p \in People : UsableOwner(p)

HasManager(household) == \E p \in People :
  HouseholdOf[p] = household /\ UsableManager(p)

\* A household that can be managed stays so; only the transition shuts its source.
ManagerRemains ==
  [][\A p \in People : HasManager(HouseholdOf[p]) =>
       HasManager(HouseholdOf[p])' \/ (transition' = "finalized" /\ HouseholdOf[p] = Source)]_vars
=============================================================================
