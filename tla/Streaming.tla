----------------------------- MODULE Streaming -----------------------------
(***************************************************************************)
(* One streamed reply on the live path: the client wrappers of client/     *)
(* (Anthropic, Gemini, OpenAI), the RuleDispatcher they share, and the     *)
(* loop of runners/path_b_multiturn.py that rebuilds the assistant's       *)
(* message from the events.  The Gemini and OpenAI wrappers present their  *)
(* chunks as Anthropic events; the Anthropic wrapper forwards the SDK's.   *)
(* What the provider sends is chosen piece by piece.  path_b gives its     *)
(* clients no stager: their dispatchers fire nothing, and its own detector *)
(* does (Session).  path_a_smoke gives its client one.  A client with      *)
(* AGENTSTAGE_DETECTOR_DISABLED only forwards events and is left out.      *)
(***************************************************************************)
EXTENDS Detector

CONSTANTS
    Provider,       \* the wrappers: a subset of {"anthropic", "gemini", "openai"}
    Piece,          \* texts a thinking or text delta may carry
    Fragment,       \* texts a tool-argument fragment may carry, <<>> included
    Position,       \* delta.tool_calls[].index values of an OpenAI server
    Enabled,        \* RuleDispatcher.enabled: the client has a stager and rules
    Detected,       \* Detected[r]: the files of r's target keys, in order
    EagerLimit,     \* tier_for_size: the longest list that is tier 1
    MaxPieces       \* bound: pieces in one reply

Kind == {"thinking", "text", "tool_use"}

ASSUME StreamingAssumption ==
    /\ Provider \subseteq {"anthropic", "gemini", "openai"}
    /\ Piece \subseteq Seq(Token) \ {<<>>}
    /\ Fragment \subseteq Seq(Token)
    /\ 0 \notin Position
    /\ Enabled \in BOOLEAN
    /\ Detected \in [Rule -> Seq(Path)]
    /\ EagerLimit \in Nat
    /\ MaxPieces \in Nat

VARIABLES
    provider,   \* which wrapper serves this reply
    blocks,     \* blocks[i]: [kind, text] of the block with index i
    openByKind, \* _open_by_kind: the block of each kind, 0 when there is none
    toolAt,     \* _tool_by_index: the block of each position, 0 when none
    out,        \* the events yielded so far
    fired,      \* session.fired_rule_names
    hints,      \* hints[r]: how often r's files were handed to the stager
    finished,   \* session.thinking_blocks: the texts stored at the end
    ended,      \* the wrapper's generator is exhausted
    sent        \* history: what the provider sent, [kind, call, text]

streamVars == <<blocks, openByKind, toolAt>>
vars == <<provider, blocks, openByKind, toolAt, out, fired, hints, finished,
          ended, sent>>

Init ==
    /\ provider \in Provider
    /\ blocks = <<>>
    /\ openByKind = [k \in {"thinking", "text"} |-> 0]
    /\ toolAt = [pos \in Position |-> 0]
    /\ out = <<>>
    /\ fired = {}
    /\ hints = [r \in Rule |-> 0]
    /\ finished = <<>>
    /\ ended = FALSE
    /\ sent = <<>>

-----------------------------------------------------------------------------
Start(i, kind) == [type |-> "start", index |-> i, kind |-> kind, text |-> <<>>]
Delta(i, kind, text) == [type |-> "delta", index |-> i, kind |-> kind, text |-> text]
Stop(i) == [type |-> "stop", index |-> i, kind |-> blocks[i].kind, text |-> <<>>]
MessageStop == [type |-> "message_stop", index |-> 0, kind |-> "none", text |-> <<>>]

Yield(events) == out' = out \o events
Send(kind, call, text) ==
    /\ ~ended /\ Len(sent) < MaxPieces
    /\ sent' = Append(sent, [kind |-> kind, call |-> call, text |-> text])

\* fire returns at once when the dispatcher is not enabled.
Found(r, text) == Enabled /\ Matches(r, text)

\* A plausible bug: a piece is searched without what came before it.
FirePiece(i) ==
    LET newly == {r \in Rule \ fired : Found(r, Last(sent').text)}
        eager == {r \in newly : Len(Detected[r]) <= EagerLimit}
    IN /\ fired' = fired \cup newly
       /\ hints' = [r \in Rule |-> hints[r] + IF r \in eager THEN 1 ELSE 0]

\* A plausible bug: only the rules that are not dispatched are remembered.
FireForgets(i) ==
    LET newly == {r \in Rule \ fired : Found(r, blocks'[i].text)}
        eager == {r \in newly : Len(Detected[r]) <= EagerLimit}
    IN /\ fired' = fired \cup (newly \ eager)
       /\ hints' = [r \in Rule |-> hints[r] + IF r \in eager THEN 1 ELSE 0]

\* RuleDispatcher.fire on what block i has accumulated: if there is a stager,
\* every rule that has not fired is searched, and the tier-1 ones dispatched.
Fire(i) ==
    LET newly == {r \in Rule \ fired : Found(r, blocks'[i].text)}
        eager == {r \in newly : Len(Detected[r]) <= EagerLimit}
    IN /\ fired' = fired \cup newly
       /\ hints' = [r \in Rule |-> hints[r] + IF r \in eager THEN 1 ELSE 0]

FireIfThinking(kind, i) ==
    \/ kind = "thinking" /\ Fire(i)
    \/ kind # "thinking" /\ UNCHANGED <<fired, hints>>

-----------------------------------------------------------------------------
(***************************************************************************)
(* Anthropic: the SDK streams one block after the other.  _on_event looks  *)
(* at each event before it is forwarded unchanged.                         *)
(***************************************************************************)
IndicesOf(type) == {out[n].index : n \in {m \in DOMAIN out : out[m].type = type}}
OpenBlocks == IndicesOf("start") \ IndicesOf("stop")

BlockStart(kind) ==
    /\ provider = "anthropic" /\ OpenBlocks = {} /\ ~ended
    /\ Len(blocks) < MaxPieces
    /\ blocks' = Append(blocks, [kind |-> kind, text |-> <<>>])
    /\ Yield(<<Start(Len(blocks) + 1, kind)>>)
    /\ UNCHANGED <<provider, openByKind, toolAt, fired, hints, finished, ended, sent>>

BlockDelta(i, text) ==
    /\ provider = "anthropic" /\ i \in OpenBlocks
    /\ text \in IF blocks[i].kind = "tool_use" THEN Fragment ELSE Piece
    /\ Send(blocks[i].kind, i, text)
    /\ blocks' = [blocks EXCEPT ![i].text = @ \o text]
    /\ Yield(<<Delta(i, blocks[i].kind, text)>>)
    /\ FireIfThinking(blocks[i].kind, i)
    /\ UNCHANGED <<provider, openByKind, toolAt, finished, ended>>

BlockStop(i) ==
    /\ provider = "anthropic" /\ i \in OpenBlocks
    /\ Yield(<<Stop(i)>>)
    /\ UNCHANGED <<provider, streamVars, fired, hints, finished, ended, sent>>

-----------------------------------------------------------------------------
(***************************************************************************)
(* Gemini and OpenAI: a block per kind stays open to the end of the reply, *)
(* whatever comes between its pieces.                                      *)
(***************************************************************************)
\* _handle_part for text, and _emit_text.
EmitText(kind, text) ==
    LET known == openByKind[kind]
        i == IF known = 0 THEN Len(blocks) + 1 ELSE known
    IN /\ provider \in {"gemini", "openai"}
       /\ Send(kind, i, text)
       /\ \/ /\ known = 0
             /\ blocks' = Append(blocks, [kind |-> kind, text |-> text])
             /\ Yield(<<Start(i, kind), Delta(i, kind, text)>>)
          \/ /\ known # 0
             /\ blocks' = [blocks EXCEPT ![i].text = @ \o text]
             /\ Yield(<<Delta(i, kind, text)>>)
       /\ openByKind' = [openByKind EXCEPT ![kind] = i]
       /\ FireIfThinking(kind, i)
       /\ UNCHANGED <<provider, toolAt, finished, ended>>

\* _handle_part for a function call, which Gemini never splits.
FunctionCall(args) ==
    LET i == Len(blocks) + 1 IN
    /\ provider = "gemini"
    /\ Send("tool_use", i, args)
    /\ blocks' = Append(blocks, [kind |-> "tool_use", text |-> args])
    /\ Yield(<<Start(i, "tool_use"), Delta(i, "tool_use", args),
               [type |-> "stop", index |-> i, kind |-> "tool_use", text |-> <<>>]>>)
    /\ UNCHANGED <<provider, openByKind, toolAt, fired, hints, finished, ended>>

\* A plausible bug: the chunk that opens a tool call is taken to carry no
\* arguments.
OpeningFragmentIgnored(pos, args) ==
    LET known == toolAt[pos]
        i == IF known = 0 THEN Len(blocks) + 1 ELSE known
    IN /\ provider = "openai"
       /\ Send("tool_use", pos, args)
       /\ \/ /\ known = 0
             /\ blocks' = Append(blocks, [kind |-> "tool_use", text |-> <<>>])
             /\ Yield(<<Start(i, "tool_use")>>)
          \/ /\ known # 0
             /\ blocks' = [blocks EXCEPT ![i].text = @ \o args]
             /\ Yield(<<Delta(i, "tool_use", args)>>)
       /\ toolAt' = [toolAt EXCEPT ![pos] = i]
       /\ UNCHANGED <<provider, openByKind, fired, hints, finished, ended>>

\* _handle_tool_call: fragments of several calls may interleave; an empty
\* fragment yields no delta.
ToolFragment(pos, args) ==
    LET known == toolAt[pos]
        i == IF known = 0 THEN Len(blocks) + 1 ELSE known
        delta == IF args = <<>> THEN <<>> ELSE <<Delta(i, "tool_use", args)>>
    IN /\ provider = "openai"
       /\ Send("tool_use", pos, args)
       /\ \/ /\ known = 0
             /\ blocks' = Append(blocks, [kind |-> "tool_use", text |-> args])
             /\ Yield(<<Start(i, "tool_use")>> \o delta)
          \/ /\ known # 0
             /\ blocks' = [blocks EXCEPT ![i].text = @ \o args]
             /\ Yield(delta)
       /\ toolAt' = [toolAt EXCEPT ![pos] = i]
       /\ UNCHANGED <<provider, openByKind, fired, hints, finished, ended>>

-----------------------------------------------------------------------------
\* _open_blocks and _open_text hold texts in the order they were opened,
\* _tool_by_index holds calls in that order.
Rank(i, S) == Cardinality({j \in S : j < i})
InOrder(S) == [n \in 1..Cardinality(S) |-> CHOOSE i \in S : Rank(i, S) = n - 1]
TextBlocks == {openByKind[k] : k \in {"thinking", "text"}} \ {0}
ToolBlocks == {toolAt[pos] : pos \in Position} \ {0}
StopAll(S) == [n \in DOMAIN InOrder(S) |-> Stop(InOrder(S)[n])]
IsThinking(b) == b.kind = "thinking"
TextsOf(bs) == [n \in DOMAIN bs |-> bs[n].text]

\* A plausible bug: the tool blocks are not closed.
EndTextOnly ==
    /\ ~ended /\ ended' = TRUE
    /\ OpenBlocks = {} \/ provider # "anthropic"
    /\ Yield(Append(StopAll(TextBlocks), MessageStop))
    /\ finished' = IF provider = "gemini" THEN <<>>
                   ELSE TextsOf(Kept(blocks, IsThinking))
    /\ UNCHANGED <<provider, streamVars, fired, hints, sent>>

\* A plausible bug: only the last thinking block is kept.
EndKeepsLast ==
    /\ ~ended /\ ended' = TRUE
    /\ OpenBlocks = {} \/ provider # "anthropic"
    /\ Yield(Append(StopAll(TextBlocks) \o StopAll(ToolBlocks), MessageStop))
    /\ finished' = LET texts == TextsOf(Kept(blocks, IsThinking))
                   IN IF texts = <<>> THEN <<>> ELSE <<Last(texts)>>
    /\ UNCHANGED <<provider, streamVars, fired, hints, sent>>

\* The provider's stream is exhausted: what is open is closed, and two of the
\* wrappers snapshot the thinking text into the session.
End ==
    /\ ~ended /\ ended' = TRUE
    /\ OpenBlocks = {} \/ provider # "anthropic"
    /\ Yield(Append(StopAll(TextBlocks) \o StopAll(ToolBlocks), MessageStop))
    /\ finished' = IF provider = "gemini" THEN <<>>
                   ELSE TextsOf(Kept(blocks, IsThinking))
    /\ UNCHANGED <<provider, streamVars, fired, hints, sent>>

Next ==
    \/ \E kind \in Kind : BlockStart(kind)
    \/ \E i \in OpenBlocks, text \in Piece \cup Fragment : BlockDelta(i, text)
    \/ \E i \in OpenBlocks : BlockStop(i)
    \/ \E kind \in {"thinking", "text"}, text \in Piece : EmitText(kind, text)
    \/ \E args \in Fragment : FunctionCall(args)
    \/ \E pos \in Position, args \in Fragment : ToolFragment(pos, args)
    \/ End
Spec == Init /\ [][Next]_vars

-----------------------------------------------------------------------------
(***************************************************************************)
(* The consumer: block_kind from the start events, one accumulator per     *)
(* kind from the deltas, blocks in the order of their index.               *)
(***************************************************************************)
TextWhere(s, Test(_)) ==
    FlattenSeq([n \in DOMAIN s |-> IF Test(s[n]) THEN s[n].text ELSE <<>>])

Rebuild ==
    LET started(i) == CHOOSE n \in DOMAIN out : out[n].type = "start" /\ out[n].index = i
        kindOf(i) == out[started(i)].kind
        textOf(i) == LET IsDelta(e) == e.type = "delta" /\ e.index = i /\ e.kind = kindOf(i)
                     IN TextWhere(out, IsDelta)
        order == InOrder(IndicesOf("start"))
    IN [n \in DOMAIN order |-> [kind |-> kindOf(order[n]), text |-> textOf(order[n])]]

OfKind(s, kind) == LET Is(e) == e.kind = kind IN TextWhere(s, Is)
Calls == {sent[n].call : n \in {m \in DOMAIN sent : sent[m].kind = "tool_use"}}
ArgsOf(call) == LET Is(p) == p.kind = "tool_use" /\ p.call = call
                IN TextWhere(sent, Is)

-----------------------------------------------------------------------------
(***************************************************************************)
(* Properties.                                                             *)
(***************************************************************************)
\* Whatever the provider, the events look like the Anthropic SDK's: a block is
\* started once, its deltas are of its kind and come before its one stop, and
\* every block is stopped when the message is.
EventsWellFormed ==
    LET At(type, i) == {n \in DOMAIN out : out[n].type = type /\ out[n].index = i}
        Before(S, T) == \A m \in S, n \in T : m < n
    IN \A i \in {out[n].index : n \in DOMAIN out} \ {0} :
        /\ Cardinality(At("start", i)) = 1 /\ Cardinality(At("stop", i)) <= 1
        /\ Before(At("start", i), At("delta", i) \cup At("stop", i))
        /\ Before(At("delta", i), At("stop", i))
        /\ \A m \in At("delta", i), n \in At("start", i) : out[m].kind = out[n].kind
        /\ ended => At("stop", i) # {}

\* The message that the consumer rebuilds holds all that the provider sent:
\* per kind of text, in order, and per tool call, however calls interleave.
NothingIsLost ==
    /\ \A k \in {"thinking", "text"} :
         OfKind(Rebuild, k) = OfKind(sent, k)
    /\ \A call \in Calls : \E n \in DOMAIN Rebuild :
         Rebuild[n].kind = "tool_use" /\ Rebuild[n].text = ArgsOf(call)

\* With a stager to hand files to, a rule that matches a thinking block of the
\* rebuilt message fired while it was streamed, wherever the provider cut it.
NothingSlips ==
    \A n \in DOMAIN Rebuild, r \in Rule :
        Enabled /\ Rebuild[n].kind = "thinking" /\ Matches(r, Rebuild[n].text)
          => r \in fired

\* The stager is handed a rule's files once if they are few and the rule has
\* fired, and otherwise never.
OneHintPerRule ==
    \A r \in Rule : hints[r] =
        IF r \in fired /\ Len(Detected[r]) <= EagerLimit THEN 1 ELSE 0

\* The thinking text kept in the session is what the consumer rebuilt; the
\* Gemini wrapper keeps none.
SessionKeepsThinking ==
    ended /\ provider # "gemini" => finished = TextsOf(Kept(Rebuild, IsThinking))
=============================================================================
