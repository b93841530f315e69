-------------------------- MODULE AccountInvitation --------------------------
(***************************************************************************)
(* The account of a person from its creation with an invitation to its     *)
(* first password: creating, reissuing, disabling and accepting are        *)
(* transactions of services/api/src/app.ts that lock the installation, the *)
(* account and its invitations, each in an order of its own.               *)
(*                                                                         *)
(* A transaction's writes appear when it commits.  Two transactions can    *)
(* wait for each other; PostgreSQL then aborts one, as it aborts those     *)
(* whose statement takes ten seconds and those that lose their connection. *)
(***************************************************************************)
EXTENDS Naturals, FiniteSets

CONSTANTS Requests,        \* handlers of requests under way
          MaxInvitations,  \* bound: invitations of the account
          MaxRevision      \* bound: revision of the account

VARIABLES login,       \* the accounts row
          invitation,  \* the account_invitations rows, oldest first
          serving      \* the transaction of each request

accessVars == <<login, invitation, serving>>

Invitations == 1..MaxInvitations
Open(i) == invitation[i].status = "open"
Pending == login.there /\ ~login.password
\* the rows that are locked
Installation  == <<"installation">>
Account       == <<"account">>
Invitation(i) == <<"invitation", i>>

Unserved == [kind |-> "none", waits |-> {}, holds |-> {}, link |-> 0, base |-> 0, disable |-> FALSE]

AccessInit ==
  /\ login = [there |-> FALSE, password |-> FALSE, disabled |-> FALSE, rev |-> 1]
  /\ invitation = [i \in Invitations |-> [status |-> "none", expired |-> FALSE]]
  /\ serving = [q \in Requests |-> Unserved]

-----------------------------------------------------------------------------
(* Row locks, until the end of the transaction.                            *)

Free(row) == \A q \in Requests : row \notin serving[q].holds
Begin(q, kind, row, link, base, disable) ==
  /\ serving[q].kind = "none"
  /\ serving' = [serving EXCEPT ![q] = [kind |-> kind, waits |-> {row}, holds |-> {},
                                        link |-> link, base |-> base, disable |-> disable]]
  /\ UNCHANGED <<login, invitation>>

\* the rows that are locked after this one
LockedAfter(q, row) ==
  CASE serving[q].kind = "accept" -> {Account} \ {row}
    [] serving[q].kind = "reissue" /\ row = Account ->
         {Invitation(i) : i \in {j \in Invitations : Open(j)}}
    [] serving[q].kind \in {"reissue", "disable"} /\ row = Installation -> {Account}
    [] OTHER -> {}

Lock(q) ==
  /\ \E row \in serving[q].waits :
       /\ Free(row)
       /\ serving' = [serving EXCEPT ![q].holds = @ \cup {row}, ![q].waits = LockedAfter(q, row)]
  /\ UNCHANGED <<login, invitation>>

Ready(q) == serving[q].kind # "none" /\ serving[q].waits = {}
End(q) == serving' = [serving EXCEPT ![q] = Unserved]

\* ROLLBACK: a check that failed, a deadlock, a timeout, a lost connection
Abort(q) == serving[q].kind # "none" /\ End(q) /\ UNCHANGED <<login, invitation>>

-----------------------------------------------------------------------------
(* The transactions.                                                       *)

\* POST .../account, or .../people: with a password, or with an invitation
AskCreate(q) == Begin(q, "create", Installation, 0, 0, FALSE)
Create(q, password) ==
  /\ Ready(q) /\ serving[q].kind = "create" /\ ~login.there
  /\ login' = [login EXCEPT !.there = TRUE, !.password = password]
  /\ invitation' = IF password THEN invitation ELSE [invitation EXCEPT ![1].status = "open"]
  /\ End(q)

\* POST .../invitation: only for an account that is still pending, in the revision
\* that the administrator saw
AskReissue(q) == login.there /\ Begin(q, "reissue", Installation, 0, login.rev, FALSE)
\* Faulty variant: an account that has a password can be invited again.
ReissuableAlways(q) == ~login.disabled /\ login.rev = serving[q].base
Reissuable(q) == Pending /\ ~login.disabled /\ login.rev = serving[q].base
Reissue(q) ==
  /\ Ready(q) /\ serving[q].kind = "reissue" /\ Reissuable(q) /\ login.rev < MaxRevision
  /\ \E i \in Invitations :
       /\ invitation[i].status = "none" /\ \A j \in 1..(i - 1) : invitation[j].status # "none"
       /\ invitation' = [j \in Invitations |->
            IF j = i THEN [status |-> "open", expired |-> FALSE]
            ELSE IF Open(j) THEN [invitation[j] EXCEPT !.status = "revoked"] ELSE invitation[j]]
  /\ login' = [login EXCEPT !.rev = @ + 1]
  /\ End(q)

\* PATCH .../accounts/:accountId
AskDisable(q, disable) == login.there /\ Begin(q, "disable", Installation, 0, login.rev, disable)
Disable(q) ==
  /\ Ready(q) /\ serving[q].kind = "disable" /\ login.rev = serving[q].base
  /\ login.rev < MaxRevision
  /\ login' = [login EXCEPT !.disabled = serving[q].disable, !.rev = @ + 1]
  /\ End(q) /\ UNCHANGED invitation

\* POST /auth/invitations/accept, with any link that was ever handed out; the page
\* sends it again when the answer is lost
AskAccept(q, i) == invitation[i].status # "none" /\ Begin(q, "accept", Invitation(i), i, 0, FALSE)
Acceptable(i) == Open(i) /\ ~invitation[i].expired /\ ~login.disabled
Accept(q) ==
  LET i == serving[q].link IN
  /\ Ready(q) /\ serving[q].kind = "accept" /\ Acceptable(i) /\ login.rev < MaxRevision
  /\ login' = [login EXCEPT !.password = TRUE, !.rev = @ + 1]
  /\ invitation' = [invitation EXCEPT ![i].status = "accepted"]
  /\ End(q)

\* after seven days
Expire(i) == /\ invitation[i].status # "none" /\ ~invitation[i].expired
             /\ invitation' = [invitation EXCEPT ![i].expired = TRUE]
             /\ UNCHANGED <<login, serving>>

AccessNext ==
  \/ \E q \in Requests : \/ AskCreate(q) \/ AskReissue(q) \/ \E d \in BOOLEAN : AskDisable(q, d)
                         \/ \E i \in Invitations : AskAccept(q, i)
                         \/ Lock(q) \/ Abort(q)
                         \/ \E p \in BOOLEAN : Create(q, p)
                         \/ Reissue(q) \/ Disable(q) \/ Accept(q)
  \/ \E i \in Invitations : Expire(i)

-----------------------------------------------------------------------------
\* An account that waits for its first password has exactly one link that is neither
\* used nor revoked, an account with a password has none: however accepting, reissuing
\* and disabling interleave, and whichever of them is aborted half-way.
InvitationMatchesAccount ==
  login.there => Cardinality({i \in Invitations : Open(i)}) = IF login.password THEN 0 ELSE 1

=============================================================================
