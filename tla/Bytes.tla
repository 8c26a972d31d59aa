------------------------------- MODULE Bytes -------------------------------
(***************************************************************************)
(* The lexical grammar of crates/oxc_css_parser/src/tokenizer/mod.rs: which *)
(* bytes of the source one token, one comment or one line break covers.     *)
(*                                                                         *)
(* A source is a sequence of byte CLASSES, the distinctions the tokenizer   *)
(* branches on; offsets are 0-based as in the code, so the byte at offset i *)
(* is s[i + 1].  "name" is a name byte that is neither a digit nor a hex     *)
(* digit, "quote" one of the two quotes, "open"/"close" stand for ( [ and   *)
(* ) ], "cr" for a lone \r (and \f), "punct" for every other delimiter.      *)
(*                                                                         *)
(* A scanner is the set of its outcomes (one, unless the source is at its    *)
(* end): records [kind, start, end, next] where start..end is the span and  *)
(* next the offset the cursor is left at.  kind = "Err" is the PResult Err.  *)
(***************************************************************************)
EXTENDS Naturals, Sequences, FiniteSets

ByteClass == {"name", "sp", "nl", "cr", "slash", "star", "open", "close",
              "lbrace", "rbrace", "hash", "quote", "bslash", "at", "punct"}

Syntax == {"Css", "Scss", "Sass", "Less"}

Ws      == {"sp", "nl", "cr"}
Newline == {"nl", "cr"}

\* chars.peek() after the cursor was advanced to offset i.
At(s, i) == IF i < Len(s) THEN s[i + 1] ELSE "eof"

\* The least element of a set of offsets, as a set with at most one element:
\* where a scanning loop that stops in P stops.
First(P) == {j \in P : \A k \in P : j <= k}

Outcome(kind, start, end, next) ==
    [kind |-> kind, start |-> start, end |-> end, next |-> next]

(***************************************************************************)
(* A backslash makes the byte behind it part of what is being scanned.      *)
(* Offset k is escaped, for a scan that began at i, when an odd number of   *)
(* backslashes precedes it.                                                *)
(***************************************************************************)
Escaped(s, i, k) ==
    Cardinality({m \in i..(k - 1) : \A n \in m..(k - 1) : At(s, n) = "bslash"}) % 2 = 1

\* Where a run of name code points and escapes that starts at i can end.
IdentStops(s, i) ==
    {k \in i..Len(s) : k = Len(s) \/ (At(s, k) \notin {"name", "bslash"} /\ ~Escaped(s, i, k))}

IdentStart == {"name", "bslash"}

\* scan_ident_sequence; the token is kind and starts at start.
IdentLike(s, kind, start, i) ==
    {IF e = Len(s) /\ Escaped(s, i, e) THEN Outcome("Err", start, e, e)
                                       ELSE Outcome(kind, start, e, e) :
       e \in First(IdentStops(s, i))}

\* Less `@{name}`: [\w-]+ between braces, scanned as one token.
LessVarEnd(s, i) == First(IdentStops(s, i + 2))

LessVarAhead(s, i) ==
    /\ At(s, i) = "at" /\ At(s, i + 1) = "lbrace" /\ At(s, i + 2) \in IdentStart
    /\ \E e \in LessVarEnd(s, i) : At(s, e) = "rbrace"

\* scan_less_lbrace_var
LessLBraceVar(s, i) ==
    {IF At(s, e) = "rbrace" THEN Outcome("AtLBraceVar", i, e + 1, e + 1)
                            ELSE Outcome("Err", i, e, e) : e \in LessVarEnd(s, i)}

(***************************************************************************)
(* Strings.  The body runs to the closing quote, to an interpolation of the *)
(* dialect, or to the end of the line or of the source.                    *)
(***************************************************************************)
Interpolates(s, syn, k) ==
    CASE syn = "Css"  -> FALSE
      [] syn = "Less" -> LessVarAhead(s, k)
      [] OTHER        -> At(s, k) = "hash" /\ At(s, k + 1) = "lbrace"

StringStops(s, syn, i) ==
    {k \in i..Len(s) :
        \/ k = Len(s)
        \/ ~Escaped(s, i, k) /\ (At(s, k) \in {"quote", "nl"} \/ Interpolates(s, syn, k))}

\* One static piece of a string whose body starts at i: scan_string_or_template
\* (head) and scan_string_template (a piece behind an interpolation).  The `#`
\* of `#{` is consumed and belongs to no span.
StringPiece(s, syn, head, start, i) ==
    {CASE At(s, e) = "quote" -> Outcome(IF head THEN "Str" ELSE "StrTail", start, e + 1, e + 1)
       [] At(s, e) \in {"hash", "at"} -> Outcome("StrTemplate", start, e, e + 1)
       [] At(s, e) = "nl" /\ head /\ syn = "Css" -> Outcome("BadStr", start, e, e + 1)
       [] At(s, e) = "eof" /\ head /\ syn = "Css" /\ ~Escaped(s, i, e)
            -> Outcome("BadStr", start, e, e)
       [] OTHER -> Outcome("Err", start, e, e) : e \in First(StringStops(s, syn, i))}

(***************************************************************************)
(* An unquoted url() body.  Whitespace may only stand before the closing    *)
(* parenthesis, except in Less where the body reads on.                    *)
(***************************************************************************)
\* Mutant of NonWs: a lone \r is no whitespace to the skipping loop.
NonBlank(s, i) == {k \in i..Len(s) : At(s, k) \notin {"sp", "nl"}}

NonWs(s, i) == {k \in i..Len(s) : At(s, k) \notin Ws}

\* skip_ws
WsEnd(s, i) == First(NonWs(s, i))

ByteAfterWs(s, k) == {At(s, c) : c \in WsEnd(s, k)}

UrlStops(s, syn, i) ==
    {k \in i..Len(s) :
        \/ k = Len(s)
        \/ /\ ~Escaped(s, i, k)
           /\ \/ At(s, k) \in {"close", "open", "quote"}
              \/ syn \in {"Scss", "Sass"} /\ Interpolates(s, syn, k)
              \/ At(s, k) \in Ws /\ (syn = "Less" => ByteAfterWs(s, k) \subseteq {"close", "eof"})}

\* scan_url_raw_or_template behind skip_ws (head) and scan_url_template.
UrlPiece(s, syn, head, i) ==
    UNION {
        CASE At(s, e) = "close" -> {Outcome(IF head THEN "UrlRaw" ELSE "UrlTail", i, e, e + 1)}
          [] At(s, e) = "hash"  -> {Outcome("UrlTemplate", i, e, e + 1)}
          [] At(s, e) \in Ws    ->
                {IF At(s, c) = "close"
                   THEN Outcome(IF head THEN "UrlRaw" ELSE "UrlTail", i, e, c + 1)
                   ELSE Outcome("Err", i, c, c) : c \in WsEnd(s, e)}
          [] OTHER -> {Outcome("Err", i, e, e)} : e \in First(UrlStops(s, syn, i))}

(***************************************************************************)
(* Comments.                                                               *)
(***************************************************************************)
CommentStart(s, i) == At(s, i) = "slash" /\ At(s, i + 1) \in {"star", "slash"}

BlockCloses(s, i) ==
    {k \in (i + 2)..Len(s) : k = Len(s) \/ (At(s, k) = "star" /\ At(s, k + 1) = "slash")}

\* Mutant of BlockComment: the cursor stops between the `*` and the `/`.
BlockCommentShort(s, i) ==
    {IF e = Len(s) THEN Outcome("Block", i, e, e) ELSE Outcome("Block", i, e + 2, e + 1) :
       e \in First(BlockCloses(s, i))}

\* scan_block_comment: to the first `*/` behind the opener, or to the end.
BlockComment(s, i) ==
    {IF e = Len(s) THEN Outcome("Block", i, e, e) ELSE Outcome("Block", i, e + 2, e + 2) :
       e \in First(BlockCloses(s, i))}

LineFeeds(s, i) == {k \in i..Len(s) : k = Len(s) \/ At(s, k) = "nl"}

\* scan_line_comment up to its own line's end: a \r before the \n is no part of
\* the comment; Sass leaves the \n for the layout, the others consume it.
LineComment(s, syn, i) ==
    {LET end == IF e < Len(s) /\ e > i + 2 /\ At(s, e - 1) = "cr" THEN e - 1 ELSE e
     IN  Outcome("Line", i, end, IF e < Len(s) /\ syn # "Sass" THEN e + 1 ELSE e) :
       e \in First(LineFeeds(s, i + 2))}

\* The closure starts_line of scan_line_comment: only blanks between the start
\* of the line and i.
StartsLine(s, i) ==
    \E b \in 0..i : /\ b = 0 \/ At(s, b - 1) \in Newline
                    /\ \A k \in b..(i - 1) : At(s, k) = "sp"

\* The offset behind the last line boundary of the blank run i..c-1.
LineStarts(s, i, c) == {k \in (i + 1)..c : /\ At(s, k - 1) \in Newline
                                           /\ \A m \in k..(c - 1) : At(s, m) \notin Newline}

\* The bytes of i..c-1 that are whitespace are a run that a line break splits
\* off, and c, on a later line, is indented deeper than base.
DeeperLineAhead(s, i, base, mod) ==
    \E c \in WsEnd(s, i) : /\ c < Len(s)
                           /\ \E b \in LineStarts(s, i, c) : (c - b) % mod > base

\* A line break that ends a non-blank line.
EndsContent(s, i, k) ==
    /\ At(s, k) \in Newline
    /\ \E m \in i..(k - 1) : /\ At(s, m) \notin Ws
                             /\ \A n \in m..(k - 1) : At(s, n) \notin Newline

\* consume_sass_comment_continuation from offset i: the first line end (i itself
\* first) that no deeper line follows.
ContinuationEnd(s, i, base, mod) ==
    First({k \in i..Len(s) :
             \/ k = Len(s)
             \/ /\ k = i \/ EndsContent(s, i, k)
                /\ ~DeeperLineAhead(s, k, base, mod)})

(***************************************************************************)
(* Tokenizer::next: one token at offset i.                                  *)
(***************************************************************************)
Delimiter == [b \in ByteClass |->
    CASE b = "open" -> "LParen"   [] b = "close" -> "RParen"
      [] b = "lbrace" -> "LBrace" [] b = "rbrace" -> "RBrace"
      [] OTHER -> "Punct"]

Lex(s, syn, i) ==
    LET b == At(s, i)
        c == At(s, i + 1)
    IN  CASE b = "eof" -> {Outcome("Eof", i, i, i)}
          [] b \in IdentStart -> IdentLike(s, "Ident", i, i)
          [] b = "hash" /\ c \in IdentStart -> IdentLike(s, "Hash", i, i + 1)
          [] b = "at" /\ c \in IdentStart -> IdentLike(s, "AtKeyword", i, i + 1)
          [] b = "quote" -> StringPiece(s, syn, TRUE, i, i + 1)
          [] b = "at" /\ c = "lbrace" /\ syn = "Less" /\ At(s, i + 2) \in IdentStart
               -> LessLBraceVar(s, i)
          [] b = "hash" /\ c = "lbrace" /\ syn \in {"Scss", "Sass"}
               -> {Outcome("HashLBrace", i, i + 2, i + 2)}
          [] b \in Ws -> {Outcome("Err", i, i + 1, i + 1)}
          [] OTHER -> {Outcome(IF b \in {"hash", "at"} THEN "Punct" ELSE Delimiter[b],
                               i, i + 1, i + 1)}
=============================================================================
