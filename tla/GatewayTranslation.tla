-------------------------- MODULE GatewayTranslation --------------------------
(* What a chat request becomes on its way to a provider and back.          *)
(*                                                                         *)
(* The server's facade carries conversations: the whole history comes with *)
(* every turn, is normalised (gateway/request_normalizer.py), given memory *)
(* (gateway/memory_injector.py) and written anew for the provider          *)
(* (gateway/upstream_router.py, gateway/routing.py).  The stand-alone      *)
(* application takes single requests: bounded validation                   *)
(* (gateway/request_policy.py), memory as a message of its own, transport  *)
(* (gateway/httpx_transport.py) and normalised answer                      *)
(* (gateway/normalize.py).  GatewayRequests and GatewayDispatch have the   *)
(* permits, records and observations around these.                         *)
(*                                                                         *)
(* A text is a sequence of words.  A word carries where it comes from, and *)
(* all control characters are the word Control.                            *)
EXTENDS Integers, Sequences, SequencesExt, FiniteSets

CONSTANTS
  Chats,         \* conversations, each in a window of some client
  Presents,      \* of each window: its client, workspace and provider's conversation id,
                 \* whether it sends back the id it is given, and whether another
                 \* proxy has added memory to its requests
  NoId,          \* no such header
  Providers,     \* of the configuration, in its order: id, enabled, exposed models
  Models,        \* what clients ask for, <<name>> or <<provider, name>>
  MemoryOn,      \* gateway.memory_mode is not "off"
  Policy,        \* limits.sanitize_policy
  SystemLimit,   \* limits.max_system_text_bytes, in words
  MaxTurns,      \* bound: turns of all windows together
  MaxOfRole,     \* MAX_SYSTEM_MESSAGES and its like, by role
  DirectMemory,  \* the application's memory_mode is "active"
  DirectLength   \* bound: messages of a direct request

ASSUME TranslationAssumption ==
  /\ SystemLimit \in Nat /\ MaxTurns \in Nat /\ DirectLength \in Nat
  /\ DOMAIN Providers \subseteq Nat
  /\ MemoryOn \in BOOLEAN /\ DirectMemory \in BOOLEAN /\ Policy \in {"strip", "pass", "error"}

Asked(w, n) == <<"asked", w, n>>
AsksMore(w, n) == <<"asks more", w, n>>
Answered(w, n) == <<"answered", w, n>>
System == <<"system">>
Memory == <<"memory">>
Control == <<"control">>
Open == <<"<memory_context>">>
Close == <<"</memory_context>">>

VARIABLES
  turn,      \* of each window: "idle", "injecting", "sent"
  past,      \* the messages a window shows, as it would send them
  heldId,    \* the conversation id its client holds, or NoId
  canonical, \* the normalised request
  payload,   \* what the provider was sent last
  used,      \* history: the conversation ids of its answered turns
  turns, nextFresh,
  direct     \* the direct request: its step, body, what was sent, the
             \* answer's status, what was observed

turnVars == <<turn, past, heldId, canonical, payload, used, turns, nextFresh>>
translationVars == <<turnVars, direct>>

NoRequest == [conversation |-> NoId, system |-> <<>>, messages |-> <<>>, model |-> <<>>, provider |-> 0]
NoDirect == [at |-> "new", body |-> <<>>, sent |-> <<>>, status |-> 0, observed |-> <<>>]

TranslationInit ==
  /\ turn = [w \in Chats |-> "idle"] /\ past = [w \in Chats |-> <<>>]
  /\ heldId = [w \in Chats |-> NoId]
  /\ canonical = [w \in Chats |-> NoRequest] /\ payload = [w \in Chats |-> NoRequest]
  /\ used = [w \in Chats |-> {}] /\ turns = 0 /\ nextFresh = 0
  /\ direct = NoDirect

-----------------------------------------------------------------------------
(* What a comprehension keeps of a list: the elements at some positions.   *)
Selected(list, at) == FlattenSeq([i \in DOMAIN list |-> IF i \in at THEN <<list[i]>> ELSE <<>>])

(* Content: a string is one text block.  Text loses its control characters,*)
(* blocks of an unknown type are dropped.                                  *)
Strip(text) == Selected(text, {i \in DOMAIN text : text[i] # Control})
Block(type, text) == [type |-> type, text |-> text]

BuildMessageParts(blocks) ==
  LET types == {"text", "image", "tool_use", "tool_result"}
      known == Selected(blocks, {i \in DOMAIN blocks : blocks[i].type \in types}) IN
  [i \in DOMAIN known |->
     IF known[i].type = "text" THEN [known[i] EXCEPT !.text = Strip(@)] ELSE known[i]]

TextParts(parts) == Selected(parts, {i \in DOMAIN parts : parts[i].type = "text"})
TextOf(parts) == FlattenSeq([i \in DOMAIN TextParts(parts) |-> TextParts(parts)[i].text])

(* The client comes from its header or the profile; the others may be missing.*)
Names(w) ==
  LET ids == <<Presents[w].client, Presents[w].workspace, Presents[w].conversation>> IN
  Selected(ids, {i \in DOMAIN ids : ids[i] # NoId})

(* A new id, a UUID in the code, is none that could be joined of names.    *)
NewId(n) == <<"fresh", n>>
ASSUME NewIdAssumption ==
  \A w \in Chats, n \in 0..MaxTurns :
    /\ NewId(n) \notin {Names(w), NoId}
    /\ Names(w) # NoId

(* Fault model: the id is made from the client alone if that is all there is.*)
DeriveConversationIdOfClient(w, fresh) ==
  CASE heldId[w] # NoId -> heldId[w]
    [] heldId[w] = NoId /\ Len(Names(w)) >= 1 -> Names(w)
    [] OTHER -> fresh

(* The id the client gives, else two or three ids joined by slashes, else a*)
(* new one.                                                                *)
DeriveConversationId(w, fresh) ==
  CASE heldId[w] # NoId -> heldId[w]
    [] heldId[w] = NoId /\ Len(Names(w)) >= 2 -> Names(w)
    [] OTHER -> fresh

(* The index of models: the first enabled provider that exposes a model    *)
(* has it; its own id as a prefix is cut off.                              *)
Exposing(model) == {i \in DOMAIN Providers : Providers[i].enabled /\ model \in Providers[i].models}
Resolve(model) == CHOOSE i \in Exposing(model) : \A j \in Exposing(model) : i <= j
UpstreamModel(model) ==
  IF Len(model) = 2 /\ model[1] = Providers[Resolve(model)].id THEN Tail(model) ELSE model

(* System messages are gathered, wherever they stand; the others keep      *)
(* their order, tool calls and the call they answer.                       *)
Normalize(messages, model, id) ==
  LET of(isSystem) ==
        Selected(messages, {i \in DOMAIN messages : (messages[i].role = "system") = isSystem}) IN
  [conversation |-> id,
   system |-> FlattenSeq([i \in DOMAIN of(TRUE) |-> BuildMessageParts(of(TRUE)[i].blocks)]),
   messages |-> [i \in DOMAIN of(FALSE) |->
                   [role |-> of(FALSE)[i].role, parts |-> BuildMessageParts(of(FALSE)[i].blocks),
                    calls |-> of(FALSE)[i].calls, answers |-> of(FALSE)[i].answers]],
   model |-> UpstreamModel(model), provider |-> Resolve(model)]

-----------------------------------------------------------------------------
Message(role, blocks) == [role |-> role, blocks |-> blocks, calls |-> {}, answers |-> NoId]

(* What a client sends first: its own system text, to which another proxy  *)
(* may have added memory (and then the header that says so).               *)
Preface(w) ==
  LET text == IF Presents[w].marked THEN <<System, Open, Memory, Close>> ELSE <<System>> IN
  <<Message("system", <<Block("text", text)>>)>>

(* The next message: the answer to a tool call if one is open, else a text,*)
(* text around an image, or an image alone.                                *)
NextMessages(w, n) ==
  LET open == IF past[w] = <<>> THEN {} ELSE Last(past[w]).calls
      text == Block("text", <<Asked(w, n)>>) IN
  IF open # {}
    THEN {[Message("tool", <<text>>) EXCEPT !.answers = c] : c \in open}
    ELSE {Message("user", <<text>>), Message("user", <<Block("image", <<>>)>>),
          Message("user", <<text, Block("image", <<>>), Block("audio", <<>>),
                            Block("text", <<Control, AsksMore(w, n)>>)>>)}

Fresh == NewId(nextFresh)

(* A turn arrives at the facade: an unknown model is refused by the server.*)
(* The two applications share nothing: a behaviour is of one of them.      *)
TurnBegins(w) ==
  /\ turn[w] = "idle" /\ direct.at = "new" /\ turns < MaxTurns /\ turns' = turns + 1
  /\ \E model \in Models, m \in NextMessages(w, turns + 1) :
       \/ Exposing(model) = {} /\ UNCHANGED <<turn, past, canonical, nextFresh>>
       \/ LET id == DeriveConversationId(w, Fresh) IN
          /\ Exposing(model) # {}
          /\ past' = [past EXCEPT ![w] = Append(@, m)]
          /\ canonical' = [canonical EXCEPT ![w] = Normalize(Preface(w) \o past'[w], model, id)]
          /\ nextFresh' = IF id = Fresh THEN nextFresh + 1 ELSE nextFresh
          /\ turn' = [turn EXCEPT ![w] = "injecting"]
  /\ UNCHANGED <<heldId, payload, used, direct>>

(* What inject may return: nothing remembered is an empty block.           *)
Memories == {<<>>, <<Memory, Control>>, <<Memory, Memory, Memory>>}
WrapMemoryContext(text) == <<Open>> \o text \o <<Close>>

Wrapped == {WrapMemoryContext(m) : m \in Memories}

(* Fault model: the marker of another proxy is not looked at.              *)
InjectedUnmarked(w) == {<<>>} \union (IF MemoryOn THEN Wrapped ELSE {})

(* No memory if the policy is off or the request is marked; a failure is   *)
(* none either, the server's policy is to fail open.                       *)
Injected(w) == {<<>>} \union (IF MemoryOn /\ ~Presents[w].marked THEN Wrapped ELSE {})

Refuses(text) == Policy = "error" /\ Control \in Range(text)
Sanitize(text) == IF Policy = "pass" THEN text ELSE Strip(text)

(* Memory goes after the client's system text, and all of it is cut at the *)
(* limit.                                                                  *)
SystemText(parts, memory) ==
  LET text == Sanitize(TextOf(parts) \o memory) IN SubSeq(text, 1, Min({Len(text), SystemLimit}))

(* Fault model: only the first text block of a message is kept.            *)
MessagesToOpenaiPayloadFirst(messages) ==
  [i \in DOMAIN messages |->
     LET texts == TextParts(messages[i].parts) IN
     [role |-> messages[i].role,
      content |-> IF texts = <<>> THEN {} ELSE {Sanitize(texts[1].text)},
      calls |-> messages[i].calls, answers |-> messages[i].answers]]

(* Only text goes upstream; images and tool blocks are left out.  A        *)
(* content is a text, or null if there is none.                            *)
MessagesToOpenaiPayload(messages) ==
  [i \in DOMAIN messages |->
     LET parts == messages[i].parts IN
     [role |-> messages[i].role,
      content |-> IF TextParts(parts) = <<>> THEN {} ELSE {Sanitize(TextOf(parts))},
      calls |-> messages[i].calls, answers |-> messages[i].answers]]

BuildPayload(r, memory) ==
  [r EXCEPT !.system = SystemText(r.system, memory), !.messages = MessagesToOpenaiPayload(r.messages)]

(* A turn that fails is taken back by the client.                          *)
TakeBack(w) ==
  /\ turn' = [turn EXCEPT ![w] = "idle"] /\ past' = [past EXCEPT ![w] = Front(@)]
  /\ canonical' = [canonical EXCEPT ![w] = NoRequest] /\ payload' = [payload EXCEPT ![w] = NoRequest]

(* The memory has come and the payload is built and sent in one step, or   *)
(* refused under the policy "error".                                       *)
TurnSent(w) ==
  /\ turn[w] = "injecting"
  /\ \E memory \in Injected(w) :
       IF Refuses(TextOf(canonical[w].system) \o memory) THEN TakeBack(w)
       ELSE /\ payload' = [payload EXCEPT ![w] = BuildPayload(canonical[w], memory)]
            /\ turn' = [turn EXCEPT ![w] = "sent"] /\ UNCHANGED <<past, canonical>>
  /\ UNCHANGED <<heldId, used, turns, nextFresh, direct>>

(* The provider answers with text or with a tool call; the answer carries  *)
(* the conversation's id back.                                             *)
TurnAnswered(w) ==
  LET text == Message("assistant", <<Block("text", <<Answered(w, Len(past[w]))>>)>>)
      call == [Message("assistant", <<>>) EXCEPT !.calls = {<<"call", Len(past[w])>>}] IN
  /\ turn[w] = "sent" /\ turn' = [turn EXCEPT ![w] = "idle"]
  /\ \E m \in {text, call} : past' = [past EXCEPT ![w] = Append(@, m)]
  /\ heldId' = IF Presents[w].echo THEN [heldId EXCEPT ![w] = canonical[w].conversation] ELSE heldId
  /\ canonical' = [canonical EXCEPT ![w] = NoRequest] /\ payload' = [payload EXCEPT ![w] = NoRequest]
  /\ used' = [used EXCEPT ![w] = @ \union {canonical[w].conversation}]
  /\ UNCHANGED <<turns, nextFresh, direct>>

TurnFails(w) ==
  /\ turn[w] = "sent" /\ TakeBack(w) /\ UNCHANGED <<heldId, used, turns, nextFresh, direct>>

-----------------------------------------------------------------------------
(* The stand-alone application.  Contents of a message are fit, or blank,  *)
(* with NUL or too long.                                                   *)
DirectMessages == [role : {"system", "user", "assistant", "tool"}, content : {"fit", "unfit"}]
Bodies == UNION {[1..n -> DirectMessages] : n \in 0..DirectLength}
Said(body, role) == {i \in DOMAIN body : body[i].role = role}

ValidChatRequest(body) ==
  /\ body # <<>>
  /\ \A i \in DOMAIN body : body[i].role \in DOMAIN MaxOfRole /\ body[i].content = "fit"
  /\ \A role \in DOMAIN MaxOfRole : Cardinality(Said(body, role)) <= MaxOfRole[role]
  /\ Said(body, "user") # {}

DirectAsked ==
  /\ direct.at = "new" /\ turns = 0
  /\ \E body \in Bodies :
       direct' = IF ValidChatRequest(body)
                   THEN [direct EXCEPT !.at = IF DirectMemory THEN "injecting" ELSE "sending",
                                       !.body = body, !.sent = body]
                   ELSE [direct EXCEPT !.at = "over", !.body = body, !.status = 400]
  /\ UNCHANGED turnVars

MemoryMessage == [role |-> "system", content |-> "memory"]

(* Fault model: the memory's message goes after the first message.         *)
MaterializeSecond(body) == InsertAt(body, 2, MemoryMessage)

(* The memory's message goes after the system messages at the beginning.   *)
Materialize(body) ==
  LET leading == {i \in DOMAIN body : \A j \in 1..i : body[j].role = "system"} IN
  InsertAt(body, Cardinality(leading) + 1, MemoryMessage)

(* Memory is needed here: none, or a blank or overlong text, is an error.  *)
DirectInjected ==
  /\ direct.at = "injecting"
  /\ \/ direct' = [direct EXCEPT !.at = "sending", !.sent = Materialize(direct.body)]
     \/ direct' = [direct EXCEPT !.at = "over", !.sent = <<>>, !.status = 503]
  /\ UNCHANGED turnVars

(* What may come of a send: no usable credential, no connection, no answer *)
(* in time, a status, or a body with status 200.                           *)
Kinds == {"credentials", "unreachable", "timeout", "no JSON", "no object", "no choices",
          "no content", "blank", "overlong", "usable"}
Statuses == {302, 307, 400, 401, 403, 404, 418, 422, 429, 500, 502, 503}
Outcomes ==
  {[kind |-> k, status |-> 200] : k \in Kinds} \union
  {[kind |-> "status", status |-> s] : s \in Statuses}

ClassifyStatus(status) ==
  CASE status \in {400, 404, 422} -> 400
    [] status = 429 -> 503
    [] OTHER -> 502

(* Fault model: only the presence of a content is checked.                 *)
ClientStatusUnchecked(outcome) ==
  CASE outcome.kind = "timeout" -> 504
    [] outcome.kind = "credentials" -> 503
    [] outcome.kind = "status" -> ClassifyStatus(outcome.status)
    [] outcome.kind = "no object" -> 500
    [] outcome.kind \in {"blank", "overlong", "usable"} -> 200
    [] OTHER -> 502

(* The status the client gets; a body that is JSON but no object raises    *)
(* outside every handler.                                                  *)
ClientStatus(outcome) ==
  CASE outcome.kind = "timeout" -> 504
    [] outcome.kind = "credentials" -> 503
    [] outcome.kind = "status" -> ClassifyStatus(outcome.status)
    [] outcome.kind = "no object" -> 500
    [] outcome.kind = "usable" -> 200
    [] OTHER -> 502

(* A completion is observed with the last message of the user.             *)
DirectAnswered ==
  /\ direct.at = "sending"
  /\ \E outcome \in Outcomes :
       LET status == ClientStatus(outcome)
           exchange == <<outcome.kind, Max(Said(direct.body, "user"))>> IN
       direct' = [direct EXCEPT !.at = "over", !.status = status,
                                !.observed = IF status = 200 THEN exchange ELSE <<>>]
  /\ UNCHANGED turnVars

TranslationNext ==
  \/ \E w \in Chats : TurnBegins(w) \/ TurnSent(w) \/ TurnAnswered(w) \/ TurnFails(w)
  \/ DirectAsked \/ DirectInjected \/ DirectAnswered

-----------------------------------------------------------------------------
TranslationTypeOK ==
  /\ turn \in [Chats -> {"idle", "injecting", "sent"}]
  /\ \A w \in Chats : \A m \in Range(past[w]) : m.role \in {"user", "assistant", "tool"}
  /\ turns \in 0..MaxTurns /\ nextFresh \in 0..turns
  /\ direct.at \in {"new", "injecting", "sending", "over"}
  /\ direct.status \in {0, 200, 400, 500, 502, 503, 504}

(* What the provider is sent is what the window shows: its messages in     *)
(* their order with their roles and all their words but control characters,*)
(* every tool answer after its call, under a model the provider exposes.   *)
TurnsFaithful ==
  \A w \in Chats : turn[w] = "sent" =>
    LET shown == past[w]
        sent == payload[w].messages
        texts(m) == FlattenSeq([i \in DOMAIN m.blocks |-> m.blocks[i].text]) IN
    /\ Len(sent) = Len(shown)
    /\ \A i \in DOMAIN sent :
         /\ sent[i].role = shown[i].role /\ sent[i].calls = shown[i].calls
         /\ sent[i].content = {} => Strip(texts(shown[i])) = <<>>
         /\ \A text \in sent[i].content : text = Strip(texts(shown[i]))
         /\ sent[i].answers = NoId \/ \E j \in 1..(i - 1) : sent[i].answers \in sent[j].calls
    /\ Providers[payload[w].provider].enabled
    /\ \E m \in Providers[payload[w].provider].models :
         payload[w].model \in {m, Tail(m)}

(* Memory stays in its block: there is at most one, in the system text,    *)
(* behind the client's own text, closed unless the limit cuts it off; and  *)
(* none of it is ever taken for something said in the conversation.        *)
OneMemory ==
  \A w \in Chats : turn[w] = "sent" =>
    LET text == payload[w].system
        at(word) == {i \in DOMAIN text : text[i] = word} IN
    /\ Cardinality(at(Open)) <= 1
    /\ at(Memory) # {} => at(Open) # {} /\ Max(at(Open)) < Min(at(Memory))
    /\ at(Open) # {} /\ Len(text) < SystemLimit => Max(at(Close)) = Len(text)
    /\ SystemLimit > 0 => at(System) = {1}
    /\ \A m \in Range(payload[w].messages) :
         \A said \in m.content : {Open, Memory, Close} \intersect Range(said) = {}

(* The answered turns of a window are one conversation if it sends its id  *)
(* back or names two things that make one; two windows never share one     *)
(* unless their names are the same.                                        *)
ConversationsKept ==
  \A w, v \in Chats :
    /\ Cardinality(used[w]) > 1 => Len(Names(w)) < 2 /\ ~Presents[w].echo
    /\ w # v /\ used[w] \intersect used[v] # {} => Names(w) = Names(v) /\ Len(Names(w)) >= 2

(* A direct request reaches the provider as it was, with the memory before *)
(* the first message that is not the system's; success is told, and the    *)
(* exchange observed, only for an answer that can be used; the provider's  *)
(* refusal of the gateway is never told as a refusal of the client.        *)
DirectSound ==
  LET with == {i \in DOMAIN direct.sent : direct.sent[i] = MemoryMessage} IN
  /\ direct.sent # <<>> => Selected(direct.sent, DOMAIN direct.sent \ with) = direct.body
  /\ direct.at = "sending" => Cardinality(with) = IF DirectMemory THEN 1 ELSE 0
  /\ \A i \in with : /\ \A j \in 1..i : direct.sent[j].role = "system"
                     /\ i < Len(direct.sent) /\ direct.sent[i + 1].role # "system"
  /\ direct.observed # <<>> <=> direct.status = 200
  /\ direct.observed # <<>> =>
       /\ direct.observed[1] = "usable"
       /\ \A i \in DOMAIN direct.body : i > direct.observed[2] => direct.body[i].role # "user"
  /\ direct.status \notin {401, 403}

(* A request means the same on both sides of the gateway.                  *)
RequestsTranslated == TurnsFaithful /\ OneMemory /\ ConversationsKept /\ DirectSound
=============================================================================
