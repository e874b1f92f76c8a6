--------------------------- MODULE IncludePolicy ----------------------------
(***************************************************************************)
(* headers.py: which lines of a source are #include directives, and which  *)
(* of them the policy refuses, beside what a C++ compiler includes.        *)
(*                                                                         *)
(* A source is a sequence of the characters that comments, line ends,      *)
(* splices and string literals are made of, and of whole words: the        *)
(* directive, headers in angle brackets and in quotes.  The program        *)
(* removes comments, then splices, and knows no literals; the compiler     *)
(* removes splices first.  Left out of the compiler's reading: escapes,    *)
(* character and raw literals, splices inside a word, and conditions (a    *)
(* directive is one although an #if may skip it).                          *)
(***************************************************************************)
EXTENDS Naturals, Sequences, FiniteSets, FiniteSetsExt

CONSTANTS
    Headers,    \* words <name>
    Absolute    \* words <name> with a leading / or a .. part

Quoted == "\"a\""
Quote == "\""
Include == "#include"
Marks == {"/", "*", "\n", "\\", " ", Quote, Include, Quoted}
Characters == Marks \cup Headers \cup Absolute

(* The words differ from each other and from the marks. *)
ASSUME WordsAssumption ==
    /\ Headers \cap Absolute = {}
    /\ (Headers \cup Absolute) \cap Marks = {}

-----------------------------------------------------------------------------
(* _strip_comments                                                         *)

Starts(source, i, first, second) ==
    /\ source[i] = first
    /\ i < Len(source) /\ source[i + 1] = second

(* Where the loop is after a character: in code or in a comment, or past   *)
(* the first of the two characters that open or close a block.             *)
Modes == {"code", "line", "block", "opened", "closed"}

ModeAfter(source, mode, i) ==
    IF mode = "opened" THEN "block"
    ELSE IF mode = "closed" THEN "code"
    ELSE IF mode = "block" THEN IF Starts(source, i, "*", "/") THEN "closed" ELSE "block"
    ELSE IF mode = "line" THEN IF source[i] = "\n" THEN "code" ELSE "line"
    ELSE IF Starts(source, i, "/", "*") THEN "opened"
    ELSE IF Starts(source, i, "/", "/") THEN "line"
    ELSE "code"

Scan(source) ==
    LET mode[i \in 0 .. Len(source)] ==
            IF i = 0 THEN "code" ELSE ModeAfter(source, mode[i - 1], i)
    IN  mode

Blanked(c) == IF c = "\n" THEN c ELSE " "

StripComments(source) ==
    LET mode == Scan(source) IN
    [i \in DOMAIN source |->
        IF mode[i - 1] = "code" /\ mode[i] = "code" THEN source[i] ELSE Blanked(source[i])]

-----------------------------------------------------------------------------
(* validate_direct_includes                                                *)

(* .replace("\\\n", " ") *)
SpliceLines(text) ==
    LET out[i \in 0 .. Len(text)] ==
            IF i = 0 THEN <<>>
            ELSE IF Starts(text, i, "\\", "\n") THEN Append(out[i - 1], " ")
            ELSE IF i > 1 /\ Starts(text, i - 1, "\\", "\n") THEN out[i - 1]
            ELSE Append(out[i - 1], text[i])
    IN  out[Len(text)]

(* The lines with one character more. *)
Extended(lines, c) ==
    IF c = "\n" THEN Append(lines, <<>>)
    ELSE [lines EXCEPT ![Len(lines)] = Append(lines[Len(lines)], c)]

Lines(text) ==
    LET lines[i \in 0 .. Len(text)] ==
            IF i = 0 THEN << <<>> >> ELSE Extended(lines[i - 1], text[i])
    IN  lines[Len(text)]

(* The positions of a line that are not blank. *)
Inked(line) == {i \in DOMAIN line : line[i] # " "}

(* ^[ \t]*#[ \t]*include[ \t]+(.+?)[ \t]*$ : a blank after the word, and   *)
(* one character more.                                                     *)
IsDirective(line) ==
    /\ Inked(line) # {}
    /\ LET at == Min(Inked(line)) IN
        line[at] = Include /\ Len(line) >= at + 2 /\ line[at + 1] = " "

(* What follows the word, without the blanks around it. *)
Value(line) ==
    LET ink == Inked(line) \ {Min(Inked(line))} IN
    IF ink = {} THEN <<>> ELSE SubSeq(line, Min(ink), Max(ink))

Bracketed(value, words) ==
    value # <<>> /\ value[1] \in words /\ value[Len(value)] \in words

Judge(value, allowed) ==
    IF Bracketed(value, {Quoted, Quote}) THEN "local_header_forbidden"
    ELSE IF ~Bracketed(value, Headers \cup Absolute) THEN "dynamic_header_forbidden"
    ELSE IF value[1] \in Absolute THEN "absolute_header_forbidden"
    ELSE IF Len(value) = 1 /\ value[1] \in allowed THEN "ok"
    ELSE "header_not_allowed"

(* Mutant of Cleaned: spliced lines stay two lines. *)
CleanedUnspliced(source) == StripComments(source)

Cleaned(source) == SpliceLines(StripComments(source))

ValidateDirectIncludes(source, allowed) ==
    LET lines == Lines(Cleaned(source))
        code(n) == Judge(Value(lines[n]), allowed)
    IN  {[line |-> n, code |-> code(n)] :
            n \in {m \in DOMAIN lines : IsDirective(lines[m]) /\ code(m) # "ok"}}

RefusedLines(source, allowed) == {e.line : e \in ValidateDirectIncludes(source, allowed)}

-----------------------------------------------------------------------------
(* Comments and lines as the program means them, by positions.             *)

(* Of the marks that could open a region of the text, those that lie in no *)
(* region opened by an earlier one; the region of mark p ends at last[p].  *)
Regions(openers, last) ==
    CHOOSE R \in SUBSET openers :
        \A p \in openers : p \in R <=> ~ \E c \in R : c < p /\ p <= last[c]

Openers(source) == {p \in DOMAIN source : Starts(source, p, "/", "*") \/ Starts(source, p, "/", "/")}

(* The last position of the comment that opens at p. *)
Closer(source, p) ==
    LET ends == IF source[p + 1] = "*"
                THEN {q \in p + 3 .. Len(source) : source[q - 1] = "*" /\ source[q] = "/"}
                ELSE {q - 1 : q \in {r \in p .. Len(source) : source[r] = "\n"}}
    IN  IF ends = {} THEN Len(source) ELSE Min(ends)

Comments(source) == Regions(Openers(source), [p \in Openers(source) |-> Closer(source, p)])

Commented(source) == UNION {p .. Closer(source, p) : p \in Comments(source)}

Uncommented(source) ==
    [p \in DOMAIN source |-> IF p \in Commented(source) THEN Blanked(source[p]) ELSE source[p]]

Splices(text) == {p \in DOMAIN text : Starts(text, p, "\\", "\n")}
Breaks(text) == {p \in DOMAIN text : text[p] = "\n" /\ p - 1 \notin Splices(text)}

(* The line of position p, counted without the spliced line ends. *)
LineOf(source, p) == 1 + Cardinality({b \in Breaks(Uncommented(source)) : b < p})

-----------------------------------------------------------------------------
(* What the compiler reads.                                                *)

(* The positions that are left when the splices are removed. *)
Kept(source) ==
    LET splices == Splices(source) IN {p \in DOMAIN source : p \notin splices /\ p - 1 \notin splices}

(* q is the first position of kept behind p. *)
Follows(kept, p, q) == p < q /\ \A r \in kept : r <= p \/ q <= r

Pair(source, kept, p, q, first, second) ==
    source[p] = first /\ source[q] = second /\ Follows(kept, p, q)

OpensBlock(source, kept, p) == \E q \in kept : Pair(source, kept, p, q, "/", "*")
OpensLine(source, kept, p) == \E q \in kept : Pair(source, kept, p, q, "/", "/")

CppOpeners(source) ==
    LET kept == Kept(source) IN
    {p \in kept : \/ source[p] = Quote
                  \/ OpensBlock(source, kept, p) \/ OpensLine(source, kept, p)}

(* The last position of the comment or string literal that opens at p. *)
CppLast(source, p) ==
    LET kept == Kept(source)
        lineEnds == {q - 1 : q \in {r \in kept : p < r /\ source[r] = "\n"}}
        quotes == {q \in kept : p < q /\ source[q] = Quote}
        blockEnds == {q \in kept : \E s, r \in kept : /\ p < s /\ s < r
                                                      /\ Follows(kept, p, s)
                                                      /\ Pair(source, kept, r, q, "*", "/")}
        ends == IF source[p] = Quote THEN lineEnds \cup quotes
                ELSE IF OpensBlock(source, kept, p) THEN blockEnds ELSE lineEnds
    IN  IF ends = {} THEN Len(source) ELSE Min(ends)

CppRegions(source) == Regions(CppOpeners(source), [p \in CppOpeners(source) |-> CppLast(source, p)])

CppInside(source, mark) ==
    UNION {p .. CppLast(source, p) : p \in {c \in CppRegions(source) : source[c] = mark}}

CppCommented(source) == CppInside(source, "/")
CppLiterals(source) == CppInside(source, Quote)

CppCode(source) == Kept(source) \ CppCommented(source)
Tokens(source) == {p \in CppCode(source) : source[p] \notin {" ", "\n"}}

(* A line end in a comment ends no line. *)
CppBreaks(source) == {p \in CppCode(source) : source[p] = "\n"}

(* The tokens behind position p on its line. *)
Operand(source, p) ==
    LET breaks == {b \in CppBreaks(source) : p < b} IN
    {q \in Tokens(source) : p < q /\ \A b \in breaks : q < b}

CppDirectives(source) ==
    {p \in DOMAIN source : /\ source[p] = Include
                           /\ p \in Tokens(source) \ CppLiterals(source)
                           /\ \A q \in Tokens(source) : q < p => p \notin Operand(source, q)}

(* The directives that include anything but an enabled header. *)
Violations(source, allowed) ==
    {p \in CppDirectives(source) :
        Operand(source, p) # {} /\ source[Min(Operand(source, p))] \notin allowed}

IncludesOnly(source, p, allowed) ==
    \E q \in Operand(source, p) : Operand(source, p) = {q} /\ source[q] \in allowed

-----------------------------------------------------------------------------
(* Where the program and the compiler agree.                               *)

(* Splices and literals change what is a comment. *)
ReadsCommentsAlike(source) ==
    Commented(source) \cap Kept(source) = CppCommented(source) \cap Kept(source)

(* The program demands a blank behind the word, the compiler does not. *)
Glued(source, p) == p + 1 \in Tokens(source)

RefusesViolations(source, allowed) ==
    \A p \in Violations(source, allowed) :
        LineOf(source, p) \in RefusedLines(source, allowed) \/ Glued(source, p)

(* A comment over several lines, or with a backslash in it, may look to    *)
(* the program like the end of a directive.                                *)
RefusesNothingElse(source, allowed) ==
    (\A p \in Commented(source) : source[p] \notin {"\n", "\\"}) =>
        \A n \in RefusedLines(source, allowed) : \E p \in CppDirectives(source) :
            LineOf(source, p) = n /\ ~IncludesOnly(source, p, allowed)
=============================================================================
