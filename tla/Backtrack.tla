----------------------------- MODULE Backtrack -----------------------------
(***************************************************************************)
(* Speculative parsing: Parser::try_parse, the one-token lookahead of       *)
(* ParserCursor, the scoped ParserState, the pending continuation indents   *)
(* of the indented syntax and the line-comment mode of Sass custom          *)
(* properties (crates/oxc_css_parser/src/parser/mod.rs, state.rs, sass.rs,  *)
(* stmt.rs).                                                               *)
(*                                                                         *)
(* The tokenizer is reduced to what rolling back has to deal with: a        *)
(* cursor over a stream of items, a comment list filled while skipping, and *)
(* the two line-comment fields of its state.  The grammar is any program    *)
(* that uses these operations, each as often and nested as deep as it       *)
(* likes.                                                                  *)
(***************************************************************************)
EXTENDS Naturals, Sequences, SequencesExt, FiniteSets

CONSTANTS
    Streams,    \* the item streams to parse
    Contexts,   \* the values of ParserState that matter to nobody here but its scope
    MaxErrors,  \* bound on recorded recoverable errors
    MaxDepth    \* bound on nested attempts and scopes

(***************************************************************************)
(* An item is a token or a comment: "block" a block comment, "line" a `//`  *)
(* (text while line comments are off), "indent", "dedent" and "linebreak"   *)
(* the layout of the indented syntax, "token" any other token.  Behind the  *)
(* last item comes Eof, again and again.                                    *)
(***************************************************************************)
Item == {"token", "block", "line", "indent", "dedent", "linebreak"}

ASSUME BacktrackAssumption ==
    /\ Streams \subseteq Seq(Item)
    /\ Contexts # {}
    /\ MaxErrors \in Nat /\ MaxDepth \in Nat

VARIABLES
    items,      \* the source
    tok,        \* Tokenizer::state
    comments,   \* Tokenizer::comments, by item index
    cached,     \* ParserCursor::cached_token, by item index; 0 = None
    errors,     \* Parser::recoverable_errors, by the index they were met at
    pending,    \* Parser::sass_pending_indents
    ctx,        \* Parser::state
    ast,        \* the tokens that the nodes built so far own, by item index
    frames,     \* the open try_parse calls, WithState guards and raw rescans
    failing,    \* an Err is being returned
    rescan      \* a typed custom property value was given up, its rescan is next

vars == <<items, tok, comments, cached, errors, pending, ctx, ast, frames, failing, rescan>>

----------------------------------------------------------------------------
ItemAt(i) == IF i <= Len(items) THEN items[i] ELSE "eof"

IsComment(i, lineComments) ==
    ItemAt(i) = "block" \/ (ItemAt(i) = "line" /\ lineComments)

\* The comments that skipping from item i to item k collects.
Skip(i, k) == [n \in 1..(k - i) |-> i + n - 1]

Lines(seq) == Cardinality({n \in 1..Len(seq) : ItemAt(seq[n]) = "line"})

\* Item k is the token that Tokenizer::bump returns next.
BumpsTo(k) ==
    /\ k >= tok.pos /\ ~IsComment(k, tok.lineComments)
    /\ \A i \in tok.pos..(k - 1) : IsComment(i, tok.lineComments)

\* What is left of the stream, Eof included (it does not move the cursor).
Rest == tok.pos..(Len(items) + 1)

Past(k) == IF k > Len(items) THEN k ELSE k + 1

\* Tokenizer::bump as far as item k.
Advance(k) ==
    /\ tok' = [tok EXCEPT !.pos = Past(k), !.seen = @ + Lines(Skip(tok.pos, k))]
    /\ comments' = comments \o Skip(tok.pos, k)

Init ==
    /\ items \in Streams /\ ctx \in Contexts
    /\ tok = [pos |-> 1, lineComments |-> TRUE, seen |-> 0]
    /\ comments = <<>> /\ errors = <<>> /\ ast = <<>> /\ frames = <<>>
    /\ cached = 0 /\ pending = 0 /\ failing = FALSE /\ rescan = FALSE

Parsing == ~failing /\ ~rescan

----------------------------------------------------------------------------
(***************************************************************************)
(* The cursor.                                                              *)
(***************************************************************************)
\* peek, and eat_token that does not match: the token is read and kept back.
Peek ==
    /\ Parsing /\ cached = 0
    /\ \E k \in Rest : BumpsTo(k) /\ Advance(k) /\ cached' = k
    /\ UNCHANGED <<items, errors, pending, ctx, ast, frames, failing, rescan>>

\* bump, and eat_token or expect_token that matches; Eof belongs to no node.
Own(k) == ast' = IF ItemAt(k) = "eof" THEN ast ELSE Append(ast, k)

BumpCached ==
    /\ Parsing /\ cached # 0
    /\ Own(cached) /\ cached' = 0
    /\ UNCHANGED <<items, tok, comments, errors, pending, ctx, frames, failing, rescan>>

BumpFresh ==
    /\ Parsing /\ cached = 0
    /\ \E k \in Rest : BumpsTo(k) /\ Advance(k) /\ Own(k)
    /\ UNCHANGED <<items, cached, errors, pending, ctx, frames, failing, rescan>>

\* expect_without_ws_or_comments: only with no token kept back, only on a glued token.
BumpGlued ==
    /\ Parsing /\ cached = 0
    /\ ItemAt(tok.pos) = "token"
    /\ Advance(tok.pos) /\ Own(tok.pos)
    /\ UNCHANGED <<items, cached, errors, pending, ctx, frames, failing, rescan>>

\* recoverable_errors.push, at the token the parser looks at.
PushError ==
    /\ Parsing /\ Len(errors) < MaxErrors
    /\ errors' = Append(errors, tok.pos)
    /\ UNCHANGED <<items, tok, comments, cached, pending, ctx, ast, frames, failing, rescan>>

(***************************************************************************)
(* Continuation lines of the indented syntax.  Both functions are loops     *)
(* that peek: a turn is a step here, and the last peek, which keeps back     *)
(* the token that ends the loop, is Peek.                                  *)
(***************************************************************************)
\* The next token is the item k, kept back or still to be read, and is owned.
TakeNext(k) ==
    /\ IF cached # 0 THEN k = cached /\ UNCHANGED <<tok, comments>>
                     ELSE BumpsTo(k) /\ Advance(k)
    /\ cached' = 0 /\ Own(k)

\* A turn of eat_sass_line_continuation: layout that continues the line is
\* dropped, and each Indent owes the Dedent that closes it.
EatLineContinuation ==
    /\ Parsing
    /\ \E k \in 1..Len(items) :
         /\ ItemAt(k) \in {"indent", "linebreak"}
         /\ TakeNext(k)
         /\ pending' = IF ItemAt(k) = "indent" THEN pending + 1 ELSE pending
    /\ UNCHANGED <<items, errors, ctx, frames, failing, rescan>>

\* A turn of drain_sass_pending_dedents.
DrainPendingDedents ==
    /\ Parsing /\ pending > 0
    /\ \E k \in 1..Len(items) : ItemAt(k) = "dedent" /\ TakeNext(k)
    /\ pending' = pending - 1
    /\ UNCHANGED <<items, errors, ctx, frames, failing, rescan>>

\* Mutant of EnterVirtualBlock: any block is taken for a continuation's.
EnterAnyBlock ==
    /\ Parsing
    /\ pending' = pending - 1
    /\ UNCHANGED <<items, tok, comments, cached, errors, ctx, ast, frames, failing, rescan>>

\* SimpleBlock::parse enters the block whose Indent a continuation consumed.
EnterVirtualBlock ==
    /\ Parsing /\ pending > 0
    /\ pending' = pending - 1
    /\ UNCHANGED <<items, tok, comments, cached, errors, ctx, ast, frames, failing, rescan>>

----------------------------------------------------------------------------
(***************************************************************************)
(* try_parse.  The snapshot holds the tokenizer's state, the lookahead and  *)
(* the pending indents by value, the comment and error lists by length, and *)
(* no ParserState at all.  The nodes an attempt builds are its result: they *)
(* are dropped with the Err.                                               *)
(***************************************************************************)
\* Mutant of Snapshot: the lookahead is not saved.
SnapshotForgetsLookahead(kind) ==
    [kind |-> kind, tok |-> tok, nComments |-> Len(comments), nErrors |-> Len(errors),
     cached |-> 0, pending |-> pending, nAst |-> Len(ast)]

Snapshot(kind) ==
    [kind |-> kind, tok |-> tok, nComments |-> Len(comments), nErrors |-> Len(errors),
     cached |-> cached, pending |-> pending, nAst |-> Len(ast)]

Deeper == Len(frames) < MaxDepth

TryBegin ==
    /\ Parsing /\ Deeper
    /\ \E kind \in {"try", "typed"} :
         /\ kind = "typed" => cached = 0
         /\ frames' = Append(frames, Snapshot(kind))
    /\ UNCHANGED <<items, tok, comments, cached, errors, pending, ctx, ast, failing, rescan>>

Top == Last(frames)

Open(kind) == frames # <<>> /\ Top.kind = kind

TryOk ==
    /\ Parsing /\ Open("try")
    /\ frames' = Front(frames)
    /\ UNCHANGED <<items, tok, comments, cached, errors, pending, ctx, ast, failing, rescan>>

\* A typed custom property value must not have read a line comment.
TypedOk ==
    /\ Parsing /\ Open("typed") /\ tok.seen = Top.tok.seen
    /\ frames' = Front(frames)
    /\ UNCHANGED <<items, tok, comments, cached, errors, pending, ctx, ast, failing, rescan>>

Truncate(seq, n) == SubSeq(seq, 1, n)

\* Mutants of RestoreFrom: all but one part of the snapshot, and with the error
\* list cleared instead of truncated.
RestoreAllBut(f, part) ==
    /\ tok' = f.tok
    /\ comments' = IF part = "comments" THEN comments ELSE Truncate(comments, f.nComments)
    /\ errors' = IF part = "errors" THEN errors ELSE Truncate(errors, f.nErrors)
    /\ cached' = IF part = "cached" THEN 0 ELSE f.cached
    /\ pending' = IF part = "pending" THEN pending ELSE f.pending
    /\ ast' = Truncate(ast, f.nAst)

RestoreForgetsLookahead(f) == RestoreAllBut(f, "cached")
RestoreForgetsComments(f)  == RestoreAllBut(f, "comments")
RestoreForgetsErrors(f)    == RestoreAllBut(f, "errors")
RestoreForgetsPending(f)   == RestoreAllBut(f, "pending")

RestoreFrom(f) ==
    /\ tok' = f.tok
    /\ comments' = Truncate(comments, f.nComments)
    /\ errors' = Truncate(errors, f.nErrors)
    /\ cached' = f.cached
    /\ pending' = f.pending
    /\ ast' = Truncate(ast, f.nAst)

\* The caller goes on with something else, that of a typed attempt with the rescan.
TryErr ==
    /\ failing /\ (Open("try") \/ Open("typed"))
    /\ RestoreFrom(Top)
    /\ frames' = Front(frames) /\ failing' = FALSE
    /\ rescan' = (Top.kind = "typed")
    /\ UNCHANGED <<items, ctx>>

\* Any parse function may return Err, whatever it has consumed or kept back.
Err ==
    /\ Parsing /\ failing' = TRUE
    /\ UNCHANGED <<items, tok, comments, cached, errors, pending, ctx, ast, frames, rescan>>

----------------------------------------------------------------------------
(***************************************************************************)
(* with_state and Drop for WithState.                                       *)
(***************************************************************************)
WithState(c) ==
    /\ Parsing /\ Deeper
    /\ frames' = Append(frames, [kind |-> "with", ctx |-> ctx]) /\ ctx' = c
    /\ UNCHANGED <<items, tok, comments, cached, errors, pending, ast, failing, rescan>>

DropState ==
    /\ Open("with")
    /\ ctx' = Top.ctx /\ frames' = Front(frames)
    /\ UNCHANGED <<items, tok, comments, cached, errors, pending, ast, failing, rescan>>

----------------------------------------------------------------------------
(***************************************************************************)
(* parse_sass_custom_property_value: a typed attempt that must not have     *)
(* read a line comment, else the value is rescanned as text, with line      *)
(* comments off.  The flag is put back before the result is looked at, so   *)
(* on Err too.                                                             *)
(***************************************************************************)
RawBegin ==
    /\ rescan /\ rescan' = FALSE
    /\ frames' = Append(frames, [kind |-> "raw", lineComments |-> tok.lineComments])
    /\ tok' = [tok EXCEPT !.lineComments = FALSE]
    /\ UNCHANGED <<items, comments, cached, errors, pending, ctx, ast, failing>>

\* Mutant of RawEnd: an Err returns before the flag is put back.
RawEndOnOkOnly ==
    /\ Open("raw") /\ ~rescan
    /\ tok' = IF failing THEN tok ELSE [tok EXCEPT !.lineComments = Top.lineComments]
    /\ frames' = Front(frames)
    /\ UNCHANGED <<items, comments, cached, errors, pending, ctx, ast, failing, rescan>>

RawEnd ==
    /\ Open("raw") /\ ~rescan
    /\ tok' = [tok EXCEPT !.lineComments = Top.lineComments]
    /\ frames' = Front(frames)
    /\ UNCHANGED <<items, comments, cached, errors, pending, ctx, ast, failing, rescan>>

Next ==
    \/ Peek \/ BumpCached \/ BumpFresh \/ BumpGlued \/ PushError
    \/ EatLineContinuation \/ DrainPendingDedents \/ EnterVirtualBlock
    \/ TryBegin \/ TryOk \/ TypedOk \/ TryErr \/ Err
    \/ (\E c \in Contexts : WithState(c)) \/ DropState
    \/ RawBegin \/ RawEnd

Spec == Init /\ [][Next]_vars

----------------------------------------------------------------------------
\* Every variable has the shape of its field in the code.
TokState == [pos : Nat \ {0}, lineComments : BOOLEAN, seen : Nat]

TryFrame == [kind : {"try", "typed"}, tok : TokState, nComments : Nat, nErrors : Nat,
             cached : Nat, pending : Nat, nAst : Nat]

Frame == TryFrame \cup [kind : {"with"}, ctx : Contexts]
                  \cup [kind : {"raw"}, lineComments : BOOLEAN]

TypeOK ==
    /\ items \in Seq(Item) /\ tok \in TokState /\ ctx \in Contexts
    /\ comments \in Seq(Nat) /\ errors \in Seq(Nat) /\ ast \in Seq(Nat)
    /\ cached \in Nat /\ pending \in Nat
    /\ frames \in Seq(Frame) /\ failing \in BOOLEAN /\ rescan \in BOOLEAN

\* However attempts nest and fail, the parser has dealt with every item of the
\* source before its cursor exactly once: as a comment, as part of a node, or as
\* the token it keeps back, which is the one the cursor has just passed.  A list
\* restored short loses an item, a list restored long, or a cursor restored
\* without its lookahead, has one twice.
Increasing(seq) == \A m, n \in 1..Len(seq) : m < n => seq[m] < seq[n]

Partition(n, A, B, C) ==
    /\ A \cup B \cup C = 1..n
    /\ A \cap B = {} /\ A \cap C = {} /\ B \cap C = {}

Once(len, pos, cs, ca, nodes) ==
    /\ Increasing(nodes) /\ Increasing(cs)
    /\ Partition(pos - 1, Range(nodes), Range(cs), {ca} \ {0, len + 1})
    /\ ca # 0 => ca <= len + 1 /\ pos = IF ca > len THEN ca ELSE ca + 1

EachItemOnce == Once(Len(items), tok.pos, comments, cached, ast)

IsSnapshot(f) == f.kind \in {"try", "typed"}

\* The lengths saved by the open attempts never exceed the lists and never
\* decrease inwards.
SnapshotsNest ==
    /\ \A i \in 1..Len(frames) : IsSnapshot(frames[i]) =>
         /\ frames[i].nComments <= Len(comments)
         /\ frames[i].nErrors <= Len(errors)
         /\ frames[i].nAst <= Len(ast)
    /\ \A i, j \in 1..Len(frames) :
         (i < j /\ IsSnapshot(frames[i]) /\ IsSnapshot(frames[j])) =>
         /\ frames[i].nComments <= frames[j].nComments
         /\ frames[i].nErrors <= frames[j].nErrors
         /\ frames[i].nAst <= frames[j].nAst

\* What every open attempt will restore has each item before its cursor once.
SnapshotsOnce ==
    \A i \in 1..Len(frames) : IsSnapshot(frames[i]) =>
       Once(Len(items), frames[i].tok.pos, Truncate(comments, frames[i].nComments),
            frames[i].cached, Truncate(ast, frames[i].nAst))

\* line_comments_seen, restored by value, and the comment list, restored by
\* length, never drift apart: the one counts the line comments of the other.
SeenCountsLineComments == tok.seen = Lines(comments)

\* Line comments are off exactly while a custom property value is rescanned as
\* text, whichever snapshots are restored meanwhile.
ModeBelow(i) == ~\E j \in 1..(i - 1) : frames[j].kind = "raw"

LineCommentsScoped == tok.lineComments = ModeBelow(Len(frames) + 1)

\* What every open attempt and every rescan will restore has that mode.
SavedModes ==
    \A i \in 1..Len(frames) :
        /\ IsSnapshot(frames[i]) => frames[i].tok.lineComments = ModeBelow(i)
        /\ frames[i].kind = "raw" => frames[i].lineComments = ModeBelow(i)

\* Whatever try_parse may still roll back to is a state the parser can go on
\* from: truncating for an inner attempt cuts nothing an outer attempt counted,
\* no item is lost or twice there, and the comment mode is that of the rescans
\* around the attempt.
SnapshotsSound == SnapshotsNest /\ SnapshotsOnce /\ SavedModes

\* The rescan starts with no error on its way.
RescanStarts == rescan => ~failing

\* A custom property value that keeps its typed form has no `//` comment in it,
\* not even one that a failed attempt inside it once read.
TypedValueHasNoLineComment ==
    [][TypedOk => \A n \in (Top.nComments + 1)..Len(comments) :
                     ItemAt(comments[n]) # "line"]_vars

(***************************************************************************)
(* Backtracking by lengths and guards implements transactions by copies.    *)
(* The copy an attempt stands for: what its snapshot says, the lists cut to *)
(* the saved lengths, and the context that the innermost guard opened since *)
(* (or the current state, if none is) will put back.                        *)
(***************************************************************************)
WorkOf(t, cs, es, ca, pe, nodes) ==
    [tok |-> t, comments |-> cs, errors |-> es, cached |-> ca, pending |-> pe, ast |-> nodes]

Guards(fs, i) == {j \in (i + 1)..Len(fs) : fs[j].kind = "with"}

ContextAt(fs, c, i) ==
    IF Guards(fs, i) = {} THEN c
    ELSE fs[CHOOSE j \in Guards(fs, i) : \A k \in Guards(fs, i) : j <= k].ctx

Copy(i) ==
    LET f == frames[i]
    IN  CASE IsSnapshot(f) ->
               [kind |-> "try", ctx |-> ContextAt(frames, ctx, i),
                work |-> WorkOf(f.tok, Truncate(comments, f.nComments),
                                Truncate(errors, f.nErrors), f.cached, f.pending,
                                Truncate(ast, f.nAst))]
          [] f.kind = "with" -> [kind |-> "with", ctx |-> f.ctx]
          [] OTHER -> [kind |-> "raw"]

Copies == [i \in 1..Len(frames) |-> Copy(i)]

T == INSTANCE Transaction
       WITH work <- WorkOf(tok, comments, errors, cached, pending, ast),
            frames <- Copies

Transactional == T!TSpec
=============================================================================
