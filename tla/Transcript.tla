------------------------------ MODULE Transcript ------------------------------
(***************************************************************************)
(* The items of a conversation as the three provider adapters read and     *)
(* write them, and the messages they are encoded into.                     *)
(*                                                                         *)
(* What an item says is a sequence of pieces: the kind of the content part *)
(* a piece belongs to and a number that tells it from the other pieces.    *)
(* Where one text part ends and the next begins is not told apart, as no   *)
(* model reads the difference.  A message to a provider is a role and a    *)
(* sequence of blocks (parts, for Gemini; for Chat Completions the fields  *)
(* of the message: content, refusal, tool calls).                          *)
(***************************************************************************)
EXTENDS Naturals, Sequences, SequencesExt

(* The slugs of the adapters; "other" is nobody's. *)
Slugs == {"anthropic", "gemini", "chatcompletions", "other"}

Piece(k, n) == [k |-> k, n |-> n]

ContentKinds == {"text", "refusal", "media", "sidecar"} \cup Slugs   \* parts under a slug
PieceKinds   == ContentKinds \cup {"arguments", "summary", "reasoning_text", "raw"}

ConvItem(type, role, id, said, sig, by) ==
  [type |-> type, role |-> role, id |-> id, said |-> said, sig |-> sig, by |-> by]

MessageItem(role, said)  == ConvItem("message", role, 0, said, <<>>, "")
CallItemOf(id, said)     == ConvItem("function_call", "", id, said, <<>>, "")
OutputItem(id, said)     == ConvItem("function_call_output", "", id, said, <<>>, "")
ReasoningItem(by, said, sig) == ConvItem("reasoning", "", 0, said, sig, by)
ExtensionItem(by, said, sig) == ConvItem("extension", "", 0, said, sig, by)
CompactionItem           == ConvItem("compaction", "", 0, <<>>, <<>>, "")

Roles     == {"user", "assistant", "system", ""}
ItemTypes == {"message", "function_call", "function_call_output", "reasoning", "extension", "compaction"}

(* The elements of a sequence that are in a set, in order. *)
Among(s, set) == FlattenSeq([i \in 1..Len(s) |-> IF s[i] \in set THEN <<s[i]>> ELSE <<>>])

(* The pieces of one kind, of one of several kinds; those of no such kind. *)
Of(said, kinds)      == Among(said, {p \in Range(said) : p.k \in kinds})
Without(said, kinds) == Among(said, {p \in Range(said) : p.k \notin kinds})

(* The summary of a reasoning item, or its content where it has none, or   *)
(* the other way round.                                                    *)
TextOf(it, first, second) ==
  LET t == Of(it.said, {first}) IN IF t # <<>> THEN t ELSE Of(it.said, {second})

-----------------------------------------------------------------------------
Block(k, id, said, sig) == [k |-> k, id |-> id, said |-> said, sig |-> sig]
Turn(role, blocks)      == [role |-> role, blocks |-> blocks]

(* Text and refusals are text to a provider; a part under its own slug is  *)
(* the block it carries.                                                   *)
BlockOf(p) == Block(IF p.k \in {"text", "refusal"} THEN "text" ELSE p.k, 0, <<p>>, <<>>)
BlocksOf(said) == [i \in 1..Len(said) |-> BlockOf(said[i])]

(* Consecutive blocks of one role are one message. *)
Join(turns, role, blocks) ==
  IF turns # <<>> /\ Last(turns).role = role
  THEN [turns EXCEPT ![Len(turns)].blocks = @ \o blocks]
  ELSE Append(turns, Turn(role, blocks))

AllBlocks(turns) == FlattenSeq([i \in 1..Len(turns) |-> turns[i].blocks])
=============================================================================
