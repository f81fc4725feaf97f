----------------------------- MODULE Converter -----------------------------
(***************************************************************************)
(* convert_request: an Anthropic conversation becomes a Kiro one.  Runs of *)
(* messages of one role are merged, the last user message becomes the      *)
(* current one, tool uses and tool results are paired over the history and *)
(* the current message, and tools the history names are defined.           *)
(*                                                                         *)
(* A text is a piece <<message, kind>>: the order and the fate of pieces   *)
(* matter, their wording does not.                                         *)
(***************************************************************************)
EXTENDS Integers, Sequences, FiniteSets, Selections

CONSTANTS
  Ids,          \* tool_use_id
  Contents,     \* messages a client may send
  Options,      \* [supported, system, thinking, tools] of a request
  Size,         \* tool name -> its bytes
  Lead,         \* tool name -> the bytes of its first PREFIX_MAX characters
  Short,        \* long name -> the name shorten_tool_name makes of it
  Lower,        \* tool name -> the same in lower case
  TOOL_NAME_MAX_LEN,
  MaxMessages   \* bound: messages of a request

Names == DOMAIN Size
\* Bytes are limited, characters are kept: 1 and 8 bytes are for "_" and the hash.
Long == {n \in Names : Size[n] > TOOL_NAME_MAX_LEN}
PREFIX_MAX == TOOL_NAME_MAX_LEN - 1 - 8

\* A tool use carries an id and a name, a tool result the id of a use.
Uses == [id : Ids, name : Names]
Message ==
  [role : STRING, text : {"none", "blank", "words"}, thinking : BOOLEAN, image : BOOLEAN,
   results : Seq(Ids), uses : Seq(Uses)]

\* The names clients use.
Named ==
  UNION {{m.uses[k].name : k \in DOMAIN m.uses} : m \in Contents}
    \cup UNION {ToSet(o.tools) : o \in Options}

\* The hash tells the names clients use apart.
ASSUME ConverterAssumption ==
  /\ Contents \subseteq Message
  /\ \A o \in Options : o.tools \in Seq(Names)
  /\ TOOL_NAME_MAX_LEN \in Nat /\ Size \in [Names -> Nat] /\ Lead \in [Names -> Nat]
  /\ Short \in [Long -> Names]
  /\ \A n \in Long : Size[Short[n]] = Lead[n] + 1 + 8
  /\ \A m, n \in Long \cap Named : Short[m] = Short[n] => m = n
  /\ MaxMessages \in Nat

VARIABLES
  request,      \* the messages sent so far
  options,
  pc,
  messages,     \* the prefix without prefilled assistant messages
  next,         \* loop index of build_history
  users, assistants,   \* user_buffer, assistant_buffer: indices of messages
  history,      \* messages for Kiro
  names,        \* tool_name_map: short -> original
  tools,        \* names of the tool definitions
  results,      \* tool results of the current message
  orphans       \* tool uses nobody answered

vars == <<request, options, pc, messages, next, users, assistants, history, names,
          tools, results, orphans>>
buffers == <<next, users, assistants>>

Init ==
  /\ request = <<>> /\ options \in Options /\ pc = "client"
  /\ messages = <<>> /\ next = 1 /\ users = <<>> /\ assistants = <<>>
  /\ history = <<>> /\ names = <<>> /\ tools = <<>> /\ results = <<>> /\ orphans = {}

-----------------------------------------------------------------------------
\* The client: a request grows message by message, and is sent.
Say(m) ==
  /\ pc = "client" /\ Len(request) < MaxMessages
  /\ request' = Append(request, m)
  /\ UNCHANGED <<options, pc, messages, buffers, history, names, tools, results, orphans>>

HasUser == \E i \in DOMAIN request : request[i].role = "user"
LastUser == CHOOSE i \in DOMAIN request :
              /\ request[i].role = "user"
              /\ \A j \in i + 1 .. Len(request) : request[j].role # "user"
\* Messages after the last user message are prefill, and are dropped.
Conversation == SubSeq(request, 1, LastUser)

Reject ==
  /\ pc = "client"
  /\ ~options.supported \/ ~HasUser
  /\ pc' = "rejected"
  /\ UNCHANGED <<request, options, messages, buffers, history, names, tools, results, orphans>>

-----------------------------------------------------------------------------
\* Content of one message.
Piece(i, kind) == << <<i, kind>> >>
TextOf == [i \in DOMAIN messages |->
             IF messages[i].text = "none" THEN <<>> ELSE Piece(i, messages[i].text)]
ImagesOf == [i \in DOMAIN messages |-> IF messages[i].image THEN Piece(i, "image") ELSE <<>>]
ResultsOf == [i \in DOMAIN messages |-> messages[i].results]
Space == Piece(0, "space")
Blank(content) == \A k \in DOMAIN content : content[k][2] \in {"blank", "space"}

MapName(n) == IF n \in Long THEN Short[n] ELSE n
\* tool_name_map after these names went through map_tool_name.
Noted(ns) ==
  LET shorts == {Short[n] : n \in ns \cap Long}
  IN  [s \in DOMAIN names \cup shorts |->
         IF s \in shorts THEN CHOOSE n \in ns \cap Long : Short[n] = s ELSE names[s]]
NamesIn(is) == UNION {{messages[i].uses[k].name : k \in DOMAIN messages[i].uses} : i \in ToSet(is)}

UserEntry(content, images, answers) ==
  [role |-> "user", content |-> content, images |-> images, results |-> answers, uses |-> <<>>]
AssistantEntry(content, uses) ==
  [role |-> "assistant", content |-> content, images |-> <<>>, results |-> <<>>, uses |-> uses]

UsesOf == [i \in DOMAIN messages |->
             [k \in DOMAIN messages[i].uses |->
                [id |-> messages[i].uses[k].id, name |-> MapName(messages[i].uses[k].name)]]]
ContentOf == [i \in DOMAIN messages |->
  CASE messages[i].thinking -> Piece(i, "thinking") \o TextOf[i]
    [] ~messages[i].thinking /\ TextOf[i] = <<>> /\ UsesOf[i] # <<>> -> Space
    [] OTHER -> TextOf[i]]

\* What some messages have of f, in a row.
OverMessages(is, f) == FlattenSeq([k \in DOMAIN is |-> f[is[k]]])

MergeLastUsers(is) == LET last == <<is[Len(is)]>>
                      IN  UserEntry(OverMessages(is, TextOf), OverMessages(is, ImagesOf),
                                    OverMessages(last, ResultsOf))
MergeUsers(is) ==
  UserEntry(OverMessages(is, TextOf), OverMessages(is, ImagesOf), OverMessages(is, ResultsOf))

\* One message is kept as it is, of several the blank ones are left out.
WordsOf == [i \in DOMAIN messages |-> IF Blank(ContentOf[i]) THEN <<>> ELSE ContentOf[i]]
MergeAssistants(is) ==
  LET uses == OverMessages(is, UsesOf)
      words == OverMessages(is, WordsOf)
  IN  AssistantEntry(CASE Len(is) = 1 -> ContentOf[is[1]]
                       [] Len(is) > 1 /\ words = <<>> /\ uses # <<>> -> Space
                       [] OTHER -> words, uses)

-----------------------------------------------------------------------------
\* Tool definitions, and the system prompt as a pair of messages.
Accept ==
  /\ pc = "client"
  /\ options.supported /\ HasUser
  /\ messages' = Conversation
  /\ tools' = [k \in DOMAIN options.tools |-> MapName(options.tools[k])]
  /\ names' = Noted(ToSet(options.tools))
  /\ pc' = "opening"
  /\ UNCHANGED <<request, options, buffers, history, results, orphans>>

Opens == options.system = "words" \/ (options.system = "none" /\ options.thinking)

Open ==
  /\ pc = "opening"
  /\ history' = IF Opens
                THEN <<UserEntry(Piece(0, "system"), <<>>, <<>>),
                       AssistantEntry(Piece(0, "promise"), <<>>)>>
                ELSE <<>>
  /\ pc' = "reading"
  /\ UNCHANGED <<request, options, messages, buffers, names, tools, results, orphans>>

-----------------------------------------------------------------------------
\* The loop of build_history; the last message stays out of the history.
Reads(roles) == pc = "reading" /\ next < Len(messages) /\ messages[next].role \in roles
Flush(is, Merge(_)) == IF is = <<>> THEN <<>> ELSE <<Merge(is)>>

TakeUser ==
  /\ Reads({"user"})
  /\ history' = history \o Flush(assistants, MergeAssistants)
  /\ names' = Noted(NamesIn(assistants))
  /\ assistants' = <<>>
  /\ users' = Append(users, next)
  /\ next' = next + 1
  /\ UNCHANGED <<request, options, pc, messages, tools, results, orphans>>

TakeAssistant ==
  /\ Reads({"assistant"})
  /\ history' = history \o Flush(users, MergeUsers)
  /\ users' = <<>>
  /\ assistants' = Append(assistants, next)
  /\ next' = next + 1
  /\ UNCHANGED <<request, options, pc, messages, names, tools, results, orphans>>

SkipOther ==
  /\ pc = "reading" /\ next < Len(messages)
  /\ messages[next].role \notin {"user", "assistant"}
  /\ next' = next + 1
  /\ UNCHANGED <<request, options, pc, messages, users, assistants, history, names, tools,
                 results, orphans>>

\* What is buffered at the end; users nobody answered get an "OK".
Ok(is) == IF is = <<>> THEN <<>> ELSE <<AssistantEntry(Piece(0, "ok"), <<>>)>>
CloseHistory ==
  /\ pc = "reading" /\ next = Len(messages)
  /\ history' = history \o Flush(assistants, MergeAssistants) \o Flush(users, MergeUsers) \o Ok(users)
  /\ names' = Noted(NamesIn(assistants))
  /\ pc' = "pairing"
  /\ UNCHANGED <<request, options, messages, buffers, tools, results, orphans>>

-----------------------------------------------------------------------------
\* validate_tool_pairing
UseIds == UNION {{history[k].uses[j].id : j \in DOMAIN history[k].uses} : k \in DOMAIN history}
Answered == UNION {ToSet(history[k].results) : k \in DOMAIN history}
UnpairedInHistory == UseIds
Unpaired == UseIds \ Answered
\* Of the results of the current message, the first one for each open use.
FirstAnswers(answers) == Firsts(Within(answers, Unpaired))

Pair ==
  /\ pc = "pairing"
  /\ results' = FirstAnswers(messages[Len(messages)].results)
  /\ orphans' = Unpaired \ ToSet(results')
  /\ pc' = "pruning"
  /\ UNCHANGED <<request, options, messages, buffers, history, names, tools>>

\* remove_orphaned_tool_uses
Orphaned == {use \in Uses : use.id \in orphans}
Prune ==
  /\ pc = "pruning"
  /\ history' = [k \in DOMAIN history |->
                   [history[k] EXCEPT !.uses = Without(@, Orphaned)]]
  /\ pc' = "defining"
  /\ UNCHANGED <<request, options, messages, buffers, names, tools, results, orphans>>

\* The names of the history that no tool has, each once, in their order.
HistoryUses == FlattenSeq([k \in DOMAIN history |-> history[k].uses])
NamesUsed == [k \in DOMAIN HistoryUses |-> HistoryUses[k].name]
UndefinedExactly(ns) == Firsts(Without(ns, ToSet(tools)))
Undefined(ns) ==
  LET defined == {Lower[tools[k]] : k \in DOMAIN tools}
  IN  Firsts(Within(ns, {n \in Names : Lower[n] \notin defined}))

Define ==
  /\ pc = "defining"
  /\ tools' = tools \o Undefined(NamesUsed)
  /\ pc' = "converted"
  /\ UNCHANGED <<request, options, messages, buffers, history, names, results, orphans>>

Next ==
  \/ \E m \in Contents : Say(m)
  \/ Reject \/ Accept \/ Open
  \/ TakeUser \/ TakeAssistant \/ SkipOther \/ CloseHistory
  \/ Pair \/ Prune \/ Define

Spec == Init /\ [][Next]_vars

-----------------------------------------------------------------------------
\* Every tool use that goes upstream has an answer in the history or in the
\* current message, and a result of the current message is the only answer of
\* a use in the history (validate_tool_pairing, remove_orphaned_tool_uses).
\* Results in the history that answer no use stay there: the code looks for
\* strays among the results of the current message only.
PairingHolds ==
  pc \in {"defining", "converted"} =>
    /\ UseIds \subseteq Answered \cup ToSet(results)
    /\ \A k \in DOMAIN results :
         /\ results[k] \in UseIds \ Answered
         /\ \A j \in DOMAIN results \ {k} : results[j] # results[k]

\* Roles alternate up to an assistant, but where a conversation that the
\* assistant opens follows the pair of the system prompt; and merging loses or
\* reorders nothing of the earlier messages: neither words nor images nor
\* answers, nor the tool uses that have one (build_history).
By(role) == {i \in DOMAIN messages : messages[i].role = role}
Earlier(role) == Within([i \in 1 .. Len(messages) - 1 |-> i], By(role))
Spoken(role) == By(role) \X {"words", "thinking"}
HistoryContent == FlattenSeq([k \in DOMAIN history |-> history[k].content])
HistoryImages  == FlattenSeq([k \in DOMAIN history |-> history[k].images])
HistoryResults == FlattenSeq([k \in DOMAIN history |-> history[k].results])

HistoryFaithful ==
  pc = "converted" =>
    /\ \A k \in DOMAIN history :
         \/ k = Len(history) /\ history[k].role = "assistant"
         \/ k < Len(history) /\ history[k].role # history[k + 1].role
         \/ k = 2 /\ Opens /\ history[2].content = Piece(0, "promise")
    /\ Within(HistoryContent, Spoken("user"))
         = Within(OverMessages(Earlier("user"), TextOf), Spoken("user"))
    /\ Within(HistoryContent, Spoken("assistant"))
         = Within(OverMessages(Earlier("assistant"), ContentOf), Spoken("assistant"))
    /\ HistoryImages = OverMessages(Earlier("user"), ImagesOf)
    /\ HistoryResults = OverMessages(Earlier("user"), ResultsOf)
    /\ HistoryUses = Without(OverMessages(Earlier("assistant"), UsesOf), Orphaned)

\* A tool that the history names is defined, whichever its case; a definition
\* added for one never repeats a tool of the client in another case; every name
\* sent leads back to a name of the client through tool_name_map; and a name
\* over TOOL_NAME_MAX_LEN is sent only for a client's name whose first PREFIX_MAX
\* characters take more bytes than that (convert_request, map_tool_name).
Original(n) == IF n \in DOMAIN names THEN names[n] ELSE n
SentNames == ToSet(NamesUsed) \cup ToSet(tools)
ClientNames == ToSet(options.tools) \cup NamesIn(Earlier("assistant"))
CutOf(n, own) == \E m \in own \cap Long : n = Short[m] /\ Lead[m] > PREFIX_MAX

ToolsDefined ==
  pc = "converted" =>
    LET own == Len(options.tools)
    IN  /\ \A n \in ToSet(NamesUsed) : \E k \in DOMAIN tools : Lower[tools[k]] = Lower[n]
        /\ \A j \in 1 .. own, k \in own + 1 .. Len(tools) : Lower[tools[j]] # Lower[tools[k]]
        /\ \A n \in SentNames :
             /\ Original(n) \in ClientNames
             /\ n \in Long => CutOf(n, ClientNames)
=============================================================================
