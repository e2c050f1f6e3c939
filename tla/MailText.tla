------------------------------ MODULE MailText ------------------------------
(***************************************************************************)
(* From the parts of a mail to the text of its request: extract_body with  *)
(* the HTML extractor, split_quoted_body and the intake rules.             *)
(*                                                                         *)
(* A text is a sequence of characters.  A character that is a number above *)
(* 0 stands for a word, spaces are left out, and a few are told apart.  An *)
(* HTML document also holds tags; a body is a sequence of lines.           *)
(***************************************************************************)
EXTENDS Integers, Sequences, SequencesExt, Pattern

Nl == 0            \* a line break
Lt == -1           \* a literal "<", in HTML &lt;
Gt == -2           \* a literal ">"
Wrote == -3        \* On ... wrote:; a line from one to one is an attribution
Hello == -4        \* a greeting
Insult == -5       \* one of TOXICITY_TERMS
Override == -6     \* one of INJECTION_PHRASE_TERMS
OpenBreak == -11   \* <p>, <br> and the other _BREAK_TAGS
OpenQuote == -12   \* <blockquote>
CloseQuote == -13
OpenSkip == -14    \* <script>, <style>
CloseSkip == -15

OpenTags == {OpenBreak, OpenQuote, OpenSkip}
CloseTags == {CloseQuote, CloseSkip}

----------------------------------------------------------------------------
(* _TextExtractor *)

Extractor == [chunks |-> <<>>, skip |-> 0, quote |-> 0, lineStart |-> FALSE]

HandleStarttag(x, tag) ==
    LET breaks == tag \in {OpenBreak, OpenQuote}
    IN [chunks |-> IF breaks THEN Append(x.chunks, Nl) ELSE x.chunks,
        skip |-> IF tag = OpenSkip THEN x.skip + 1 ELSE x.skip,
        quote |-> IF tag = OpenQuote THEN x.quote + 1 ELSE x.quote,
        lineStart |-> \/ x.lineStart
                      \/ breaks /\ (x.quote > 0 \/ tag = OpenQuote)]

\* Mutant of HandleEndtag: a close beyond the first open counts below zero.
HandleEndtagUnguarded(x, tag) ==
    [x EXCEPT !.skip = IF tag = CloseSkip THEN @ - 1 ELSE @,
              !.quote = IF tag = CloseQuote THEN @ - 1 ELSE @,
              !.lineStart = IF tag = CloseQuote /\ x.quote = 1 THEN FALSE ELSE @]

HandleEndtag(x, tag) ==
    [x EXCEPT !.skip = IF tag = CloseSkip /\ @ > 0 THEN @ - 1 ELSE @,
              !.quote = IF tag = CloseQuote /\ @ > 0 THEN @ - 1 ELSE @,
              !.lineStart = IF tag = CloseQuote /\ x.quote = 1 THEN FALSE ELSE @]

\* _prefix_quote_lines on one character: the first of a line gets the prefix.
PrefixQuoteLine(x, c) ==
    IF x.lineStart /\ c \notin {Nl, Gt} THEN <<Gt, c>> ELSE <<c>>

HandleData(x, c) ==
    CASE x.skip # 0 -> x
      [] x.skip = 0 /\ x.quote = 0 -> [x EXCEPT !.chunks = Append(@, c)]
      [] OTHER -> [x EXCEPT !.chunks = @ \o PrefixQuoteLine(x, c), !.lineStart = (c = Nl)]

\* HTMLParser calls a handler for each token; in a script or style element all
\* but its end tag is data.
Feed(x, token) ==
    CASE token \in OpenTags /\ x.skip <= 0 -> HandleStarttag(x, token)
      [] token \in CloseTags /\ (x.skip <= 0 \/ token = CloseSkip) -> HandleEndtag(x, token)
      [] OTHER -> HandleData(x, token)

\* "<[^>]+>" from i: up to the first ">", over line breaks.
TagEnd(text, i) ==
    LET ends == {j \in i + 1 .. Len(text) : text[j] = Gt}
    IN IF text[i] = Lt /\ ends # {} /\ i + 1 \notin ends
       THEN CHOOSE j \in ends : \A other \in ends : j <= other
       ELSE 0

SplitLines(text) ==
    FoldLeft(LAMBDA lines, c :
                 IF c = Nl THEN Append(lines, <<>>)
                 ELSE [lines EXCEPT ![Len(lines)] = Append(@, c)],
             << <<>> >>, text)

\* extract_text, without the blank lines.
SanitizeHtml(doc) ==
    LET raw == FoldLeft(Feed, Extractor, doc).chunks
        lines == SplitLines(Substitute(raw, TagEnd, LAMBDA match : <<>>))
    IN Only(lines, ToSet(lines) \ {<<>>})

----------------------------------------------------------------------------
(* extract_body and split_quoted_body *)

\* The parts of a mail in the order of walk(), each with its depth in the tree and
\* its own Content-Disposition.  A "multipart" (is_multipart(), an attached mail is
\* one) is followed by the parts inside it, one deeper; the root of a mail of several
\* parts is left out.  The texts are over an alphabet.
PartsOver(chars) ==
    [type : {"multipart", "plain", "html", "other"}, attached : BOOLEAN,
     depth : Nat \ {0}, text : Seq(chars)]

\* Mutant of Leaves: attachments are read, too.
LeavesWithAttachments(parts, type) == Only(parts, {part \in ToSet(parts) : part.type = type})

\* The texts of a type.  walk() goes into every multipart, so one that is an
\* attachment is skipped but the parts inside it are not.
Leaves(parts, type) == Only(parts, {part \in ToSet(parts) : part.type = type /\ ~ part.attached})

JoinParts(parts) ==
    FoldLeft(LAMBDA text, part : IF text = <<>> THEN part.text ELSE text \o <<Nl>> \o part.text,
             <<>>, parts)

\* The body as lines: the plain parts if there is one, else the HTML parts as
\* one document.
ExtractBody(parts) ==
    LET plain == Leaves(parts, "plain")
        html == Leaves(parts, "html")
    IN IF plain # <<>> THEN SplitLines(JoinParts(plain)) ELSE SanitizeHtml(JoinParts(html))

IsQuoteBoundaryLine(line) ==
    line # <<>> /\ (line[1] = Gt \/ (line[1] = Wrote /\ Last(line) = Wrote))

Split(request, blockquote) == [request |-> request, blockquote |-> blockquote]

\* Mutant of SplitQuotedBody: no way back when all of the mail is quoted.
SplitQuotedBodyAlways(lines) ==
    LET cut == SelectInSeq(lines, IsQuoteBoundaryLine)
    IN IF cut = 0 THEN Split(lines, <<>>)
       ELSE Split(SubSeq(lines, 1, cut - 1), SubSeq(lines, cut, Len(lines)))

SplitQuotedBody(lines) ==
    LET cut == SelectInSeq(lines, IsQuoteBoundaryLine)
        request == SubSeq(lines, 1, cut - 1)
    IN IF cut = 0 \/ FlattenSeq(request) = <<>> THEN Split(lines, <<>>)
       ELSE Split(request, SubSeq(lines, cut, Len(lines)))

----------------------------------------------------------------------------
(* match_static_reply *)

\* Mutant of IsGreeting: a greeting at the start is enough.
IsGreetingPrefix(subject, body) ==
    LET blob == IF body # <<>> THEN body ELSE subject
    IN blob # <<>> /\ blob[1] = Hello

IsGreeting(subject, body) == (IF body # <<>> THEN body ELSE subject) = <<Hello>>

\* On the whole body, quoted lines included.
MatchStaticReply(subject, lines) ==
    LET body == FlattenSeq(lines)
        blob == ToSet(subject) \cup ToSet(body)
    IN CASE Insult \in blob -> "toxicity"
         [] Override \in blob /\ Insult \notin blob -> "injection"
         [] blob \cap {Insult, Override} = {} /\ IsGreeting(subject, body) -> "greeting"
         [] OTHER -> "none"
=============================================================================
