--------------------------- MODULE MCMonitorAgent ---------------------------
(* MonitorAgent for TLC: the root links to one page, whose date it does not name; *)
(* every configuration but OpenAI's own is one of a compatible server.            *)
EXTENDS MonitorAgent
CONSTANTS page, own, openai, compatible
MCLinks == {page}
MCLinksOf == [p \in {Root, page} |-> IF p = Root THEN {page} ELSE {}]
MCProviderOf == [c \in Configurations |-> IF c = own THEN openai ELSE compatible]

\* docs/decisions/0015-provider-independent-ai-web-tools.md:101-107 of the session
\* that repairs an answer without tools: it "receives ... the same ... concrete
\* model" and "cannot ... change provider/model".
RepairKeepsModel ==
  [][run.pc = "reformat" /\ run'.pc = "final" => run'.config = run.config]_vars
=============================================================================
