----------------------------- MODULE AiSettings -----------------------------
(***************************************************************************)
(* The AI settings of one household (services/api/src/ai/admin-service.ts):*)
(* members edit them with the revision they saw, and a connection test     *)
(* talks to the provider outside any transaction and stores its result     *)
(* afterwards.  Models and reasoning efforts are part of no property and   *)
(* are left out; a stored key is the provider and address that it was      *)
(* entered for.                                                            *)
(***************************************************************************)
EXTENDS Integers

CONSTANTS
  Urls,         \* base addresses of OpenAI-compatible servers
  Editors,      \* updateSettings requests
  Testers,      \* testConnection requests
  MaxSettings   \* bound: revision of the settings

VARIABLES
  settings,  \* the ai_settings row
  edit,      \* each update request
  test       \* each connection test

vars == <<settings, edit, test>>

Compatible == "openai_compatible"
Providers  == {"openai", Compatible}
NoUrl      == "no url"
Endpoints  == {[provider |-> p, url |-> u] : p \in Providers, u \in Urls \cup {NoUrl}}
NoKey      == [provider |-> "no key", url |-> NoUrl]
Keys       == Endpoints \cup {NoKey}
Results    == {"available", "unavailable", "error"}

\* rev 0: the row does not exist.  checked is availability_checked_revision;
\* tested, a ghost, is the endpoint and key of the test that was stored.
Settings == [rev : Nat, endpoint : Endpoints, key : Keys,
             status : Results \cup {"not_tested"}, checked : Nat,
             tested : [endpoint : Endpoints, key : Keys]]
Empty == [provider |-> "openai", url |-> NoUrl]
NeverTested == [endpoint |-> Empty, key |-> NoKey]

\* What a member sends: an endpoint, and a key that is kept, removed or new.
NoEdit == [step |-> "none", endpoint |-> Empty, key |-> "keep", rev |-> 0,
           entered |-> Empty]
Edit == [step : {"none", "sent", "insert"}, endpoint : Endpoints,
         key : {"keep", "remove", "new"}, rev : Nat, entered : Endpoints]
NoTest == [step |-> "none", rev |-> 0, endpoint |-> Empty, key |-> NoKey]
Test == [step : {"none", "asking"}, rev : Nat, endpoint : Endpoints, key : Keys]

Init ==
  /\ settings = [rev |-> 0, endpoint |-> Empty, key |-> NoKey,
                 status |-> "not_tested", checked |-> 0, tested |-> NeverTested]
  /\ edit = [e \in Editors |-> NoEdit]
  /\ test = [t \in Testers |-> NoTest]

-----------------------------------------------------------------------------
(* updateSettings *)

\* The address is stored for a compatible server only.
Normalized(endpoint) ==
  IF endpoint.provider = Compatible THEN endpoint ELSE [endpoint EXCEPT !.url = NoUrl]

\* The page sends what the member changed and the revision that it shows; a new
\* key is entered for the endpoint that results.
Draft(e, provider, url, key) ==
  /\ edit[e].step = "none"
  /\ LET shown == [provider |-> provider, url |-> url]
     IN  edit' = [edit EXCEPT ![e] = [step |-> "sent", endpoint |-> shown,
           key |-> key, rev |-> settings.rev, entered |-> Normalized(shown)]]
  /\ UNCHANGED <<settings, test>>

\* Faulty variant: the stored key outlives the server it was entered for.
NextKeyKept(e) ==
  CASE edit[e].key = "new"    -> edit[e].entered
    [] edit[e].key = "remove" -> NoKey
    [] OTHER                  -> settings.key

\* A key that is not sent stays, unless the provider or its address changes.
NextKey(e) ==
  CASE edit[e].key = "new"    -> edit[e].entered
    [] edit[e].key = "remove" -> NoKey
    [] OTHER -> IF Normalized(edit[e].endpoint) = settings.endpoint
                THEN settings.key ELSE NoKey

Done(e) == edit' = [edit EXCEPT ![e] = NoEdit]
Store(e, key) ==
  settings' = [rev |-> settings.rev + 1, endpoint |-> Normalized(edit[e].endpoint),
               key |-> key, status |-> "not_tested", checked |-> 0,
               tested |-> NeverTested]

\* The row is locked, compared with the expected revision and written at once;
\* without a row there is nothing to lock.
UpdateSettings(e) ==
  /\ edit[e].step = "sent" /\ settings.rev < MaxSettings
  /\ \/ /\ settings.rev = 0 /\ edit[e].rev = 0
        /\ edit' = [edit EXCEPT ![e].step = "insert"]
        /\ UNCHANGED settings
     \/ /\ settings.rev > 0 /\ edit[e].rev = settings.rev
        /\ Store(e, NextKey(e))
        /\ Done(e)
     \/ /\ edit[e].rev # settings.rev
        /\ Done(e)
        /\ UNCHANGED settings
  /\ UNCHANGED test

\* INSERT ... ON CONFLICT DO NOTHING: another first update may have won.
InsertSettings(e) ==
  /\ edit[e].step = "insert"
  /\ IF settings.rev = 0
     THEN Store(e, IF edit[e].key = "new" THEN edit[e].entered ELSE NoKey)
     ELSE UNCHANGED settings
  /\ Done(e)
  /\ UNCHANGED test

-----------------------------------------------------------------------------
(* testConnection *)

AskProvider(t) ==
  /\ test[t].step = "none"
  /\ test' = [test EXCEPT ![t] = [step |-> "asking", rev |-> settings.rev,
                endpoint |-> settings.endpoint, key |-> settings.key]]
  /\ UNCHANGED <<settings, edit>>

\* A server that needs an address or a key is not asked without it.
Complete(t) == IF test[t].endpoint.provider = Compatible
               THEN test[t].endpoint.url # NoUrl ELSE test[t].key # NoKey

\* Faulty variant: the result is stored in whatever row is there.
StoreResultUnfenced(t, result) ==
  settings' = IF settings.rev > 0
    THEN [settings EXCEPT !.status = result, !.checked = settings.rev,
                          !.tested = [endpoint |-> test[t].endpoint, key |-> test[t].key]]
    ELSE settings

\* The result belongs to the revision that was tested; no other row takes it.
StoreResult(t, result) ==
  settings' = IF settings.rev > 0 /\ settings.rev = test[t].rev
    THEN [settings EXCEPT !.status = result, !.checked = test[t].rev,
                          !.tested = [endpoint |-> test[t].endpoint, key |-> test[t].key]]
    ELSE settings

TestConnection(t) ==
  /\ test[t].step = "asking"
  /\ \E result \in IF Complete(t) THEN Results ELSE {"error"} : StoreResult(t, result)
  /\ test' = [test EXCEPT ![t] = NoTest]
  /\ UNCHANGED edit

\* The process stops before the result is stored.
TestLost(t) ==
  /\ test[t].step = "asking"
  /\ test' = [test EXCEPT ![t] = NoTest]
  /\ UNCHANGED <<settings, edit>>

-----------------------------------------------------------------------------
Next ==
  \/ \E e \in Editors : UpdateSettings(e) \/ InsertSettings(e)
  \/ \E e \in Editors, p \in Providers, u \in Urls \cup {NoUrl},
        k \in {"keep", "remove", "new"} : Draft(e, p, u, k)
  \/ \E t \in Testers : AskProvider(t) \/ TestConnection(t) \/ TestLost(t)

Spec == Init /\ [][Next]_vars

-----------------------------------------------------------------------------
(* Properties *)

\* Rows and requests keep their shapes.
TypeOK ==
  /\ settings \in Settings
  /\ edit \in [Editors -> Edit]
  /\ test \in [Testers -> Test]

\* settingsDto: what the page says about the connection.
ShownStatus == IF settings.checked = settings.rev THEN settings.status ELSE "not_tested"

\* The availability that the page shows was measured with the very provider,
\* address and key that are stored: an edit that overtakes a test, or a test that
\* is late, never passes its result on to other settings.
AvailabilityMeasured ==
  settings.rev > 0 /\ ShownStatus # "not_tested" =>
    settings.tested = [endpoint |-> settings.endpoint, key |-> settings.key]

\* A stored key is only ever used for the provider and the address it was entered
\* for, however edits of several members and changes of provider alternate.
KeyStaysWithEndpoint == settings.key # NoKey => settings.key = settings.endpoint
=============================================================================
