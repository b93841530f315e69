--------------------------- MODULE AiSettingsPage ---------------------------
(***************************************************************************)
(* The page on which a member edits the AI settings of a household         *)
(* (apps/web/src/ai-settings.tsx): what is typed, what the page last got   *)
(* from the server, and the requests in between.  The server's side of     *)
(* these requests is the module AiSettings; here it is a row with its      *)
(* revision, which other members save as well.                             *)
(*                                                                         *)
(* An address is typed in any spelling and stored in its normal one; the   *)
(* address and the reasoning efforts belong to a compatible server only;   *)
(* the two models and "enabled" are one field; a new key of a length that  *)
(* its provider takes is typed or not.                                     *)
(* A request whose answer the page gave up may reach the server later, or  *)
(* never.                                                                  *)
(***************************************************************************)
EXTENDS Naturals, FiniteSets

CONSTANTS Addresses,    \* addresses of compatible servers, as they are typed
          NormalUrl,    \* the spelling in which the server stores one
          Efforts,      \* pairs of reasoning efforts
          Models,       \* models, with AI enabled or not
          MaxRevision,  \* bound: revision of the row
          MaxLate       \* bound: saves on their way that the page gave up

VARIABLES row,   \* the ai_settings row
          panel, \* the state of the page
          sent   \* requests on their way, with their answers

aiPage == <<row, panel, sent>>

Compatible == "openai_compatible"
NoUrl      == "no url"
NotSent    == "not sent"
Forms == [provider : {"openai", Compatible}, url : Addresses \cup {NoUrl},
          efforts : Efforts, models : Models]
Normal(url) == IF url = NoUrl THEN NoUrl ELSE NormalUrl[url]
\* what the page can have a row store: a compatible server has its address
RowForms == {v \in Forms : IF v.provider = Compatible THEN \E u \in Addresses : v.url = Normal(u)
                                                     ELSE v.url = NoUrl}

Dirty(p) == p.draft # p.settings.value \/ p.newKey \/ p.remove
Busy(p)  == p.doing # "nothing"
\* credentialIdentityChanged, on the page and on the server
SameEndpoint(v, w) == v.provider = w.provider /\ (v.provider = Compatible => v.url = w.url)
HasCurrentKey(p) == p.settings.hasKey /\ SameEndpoint(p.draft, p.settings.value)

\* the form as the settings fill it
Filled(p, settings) == [p EXCEPT !.settings = settings, !.draft = settings.value]
KeyCleared(p) == [p EXCEPT !.newKey = FALSE, !.remove = FALSE]

\* what save() sends of the form
Body(v) == IF v.provider = Compatible THEN v ELSE [v EXCEPT !.url = NotSent, !.efforts = NotSent]
Request(kind, p) == [kind |-> kind, rev |-> p.settings.rev, value |-> Body(p.draft),
                     newKey |-> p.newKey, remove |-> p.remove, awaited |-> TRUE, answer |-> "none", got |-> p.settings]
Send(kind) == sent' = sent \cup {Request(kind, panel)}

PageInit ==
  /\ row \in [rev : {0}, value : RowForms, hasKey : {FALSE}]
  /\ panel = [shown |-> "loading", settings |-> row, draft |-> row.value, newKey |-> FALSE,
              remove |-> FALSE, doing |-> "nothing", saved |-> FALSE]
  /\ sent = {Request("load", panel)}

\* "retry" is offered where the form would be, once load() has failed
Retry ==
  /\ panel.shown = "retry" /\ Send("load")
  /\ panel' = [panel EXCEPT !.shown = "loading"]
  /\ UNCHANGED row

\* the fields are disabled while the page waits
Editable == panel.shown = "form" /\ ~Busy(panel)

\* one field at a time; for OpenAI the form shows no address and no efforts
Changed(v) ==
  {[v EXCEPT !.provider = p] : p \in {"openai", Compatible}}
    \cup {[v EXCEPT !.models = m] : m \in Models}
    \cup (IF v.provider # Compatible THEN {} ELSE
            {[v EXCEPT !.url = u] : u \in Addresses \cup {NoUrl}}
              \cup {[v EXCEPT !.efforts = e] : e \in Efforts})
Type(value) ==
  /\ Editable /\ value # panel.draft /\ value \in Changed(panel.draft)
  /\ panel' = [panel EXCEPT !.draft = value, !.saved = FALSE]
  /\ UNCHANGED <<row, sent>>

TypeKey ==
  /\ Editable /\ ~(panel.remove /\ HasCurrentKey(panel))
  /\ panel' = [panel EXCEPT !.newKey = ~@, !.saved = FALSE]
  /\ UNCHANGED <<row, sent>>

CheckRemove ==
  /\ Editable /\ HasCurrentKey(panel)
  /\ panel' = [panel EXCEPT !.remove = ~@, !.newKey = @ /\ panel.remove, !.saved = FALSE]
  /\ UNCHANGED <<row, sent>>

\* the two buttons
\* Faulty variant: a connection can be tested while the form holds changes.
TestOfferedAlways == Editable
SaveOffered == Editable /\ Dirty(panel)
TestOffered == Editable /\ ~Dirty(panel)

\* the browser requires the address of a compatible server
Save ==
  /\ SaveOffered /\ Send("save")
  /\ panel.draft.provider = Compatible => panel.draft.url # NoUrl
  /\ panel' = [panel EXCEPT !.doing = "saving", !.saved = FALSE]
  /\ UNCHANGED row

TestConnection ==
  /\ TestOffered /\ Send("test")
  /\ panel' = [panel EXCEPT !.doing = "testing", !.saved = FALSE]
  /\ UNCHANGED row

\* The server: an update is fenced by its revision; what was not sent stays, an
\* address is normalized for a compatible server and dropped for OpenAI, the stored
\* key follows its endpoint.  Any save may be refused, as for an address that the
\* server does not take.  A test and a read leave the row as it is.
Patched(v) ==
  LET url == IF v.url = NotSent THEN row.value.url ELSE v.url
  IN [provider |-> v.provider, models |-> v.models,
      efforts |-> IF v.efforts = NotSent THEN row.value.efforts ELSE v.efforts,
      url |-> IF v.provider = Compatible THEN Normal(url) ELSE NoUrl]
Updated(r) ==
  [rev |-> row.rev + 1, value |-> Patched(r.value),
   hasKey |-> r.newKey \/ (row.hasKey /\ ~r.remove /\ SameEndpoint(Patched(r.value), row.value))]

Answered(r, answer, got) ==
  sent' = (sent \ {r}) \cup (IF r.awaited THEN {[r EXCEPT !.answer = answer, !.got = got]} ELSE {})

Serve(r) ==
  /\ r.answer = "none"
  /\ \/ /\ r.kind = "save" /\ r.rev = row.rev /\ row.rev < MaxRevision
        /\ row' = Updated(r) /\ Answered(r, "ok", row')
     \/ r.kind # "save" /\ UNCHANGED row /\ Answered(r, "ok", row)
     \/ UNCHANGED row /\ Answered(r, "refused", r.got)
  /\ UNCHANGED panel

OtherMemberSaves(value, hasKey) ==
  /\ row.rev < MaxRevision
  /\ row' = [rev |-> row.rev + 1, value |-> value, hasKey |-> hasKey]
  /\ UNCHANGED <<panel, sent>>

\* What load(), save() and testConnection() make of an answer.  A test is followed
\* by a read of the settings and the usage, whose answer does not clear the key.
Received(r) ==
  CASE r.kind = "load" -> [KeyCleared(Filled(panel, r.got)) EXCEPT !.shown = "form"]
    [] r.kind = "save" -> [KeyCleared(Filled(panel, r.got)) EXCEPT !.saved = TRUE,
                                                                   !.doing = "nothing"]
    [] r.kind = "read" -> [Filled(panel, r.got) EXCEPT !.doing = "nothing"]
    [] r.kind = "test" -> panel
Failed(r) == IF r.kind = "load" THEN [panel EXCEPT !.shown = "retry"]
             ELSE [panel EXCEPT !.doing = "nothing"]

Receive(r) ==
  /\ r.awaited /\ r.answer # "none"
  /\ panel' = IF r.answer = "ok" THEN Received(r) ELSE Failed(r)
  /\ sent' = (sent \ {r}) \cup
       (IF r.kind = "test" /\ r.answer = "ok" THEN {Request("read", panel)} ELSE {})
  /\ UNCHANGED row

\* The page stops waiting; the server may have served the request, or may still do.
GiveUp(r) ==
  /\ r.awaited
  /\ panel' = Failed(r)
  /\ sent' = (sent \ {r}) \cup
       (IF /\ r.answer = "none" /\ r.kind = "save"
           /\ Cardinality({q \in sent : ~q.awaited}) < MaxLate
          THEN {[r EXCEPT !.awaited = FALSE]} ELSE {})
  /\ UNCHANGED row

Vanish(r) == ~r.awaited /\ sent' = sent \ {r} /\ UNCHANGED <<row, panel>>

PageNext ==
  \/ Retry \/ TypeKey \/ CheckRemove \/ Save \/ TestConnection
  \/ \E v \in Forms : Type(v)
  \/ \E v \in RowForms, hasKey \in BOOLEAN : OtherMemberSaves(v, hasKey)
  \/ \E r \in sent : Serve(r) \/ Receive(r) \/ GiveUp(r) \/ Vanish(r)

-----------------------------------------------------------------------------
(* Property.                                                               *)

Typing == TypeKey \/ CheckRemove \/ \E v \in Forms : Type(v)

\* The settings hold what the form shows: the address in its normal spelling, and
\* neither address nor efforts for OpenAI; a new key is stored, a removed one gone.
StoresForm(settings, p) ==
  /\ settings.value.provider = p.draft.provider /\ settings.value.models = p.draft.models
  /\ p.draft.provider = Compatible => /\ settings.value.url = Normal(p.draft.url)
                                      /\ settings.value.efforts = p.draft.efforts
  /\ p.newKey => settings.hasKey
  /\ p.remove /\ ~p.newKey => ~settings.hasKey

\* What a member has typed and not saved changes only by more typing, or when the
\* server has stored just that and the page shows what was stored: no answer to a
\* test or to an earlier load, no refusal, no save that was given up and is served
\* late, and no other member's save takes it away.
TypingSurvives ==
  [][Dirty(panel) /\ <<panel.draft, panel.newKey, panel.remove>>
                       # <<panel'.draft, panel'.newKey, panel'.remove>>
       => \/ Typing
          \/ /\ panel'.saved /\ StoresForm(panel'.settings, panel)
             /\ panel'.draft = panel'.settings.value]_aiPage

=============================================================================
