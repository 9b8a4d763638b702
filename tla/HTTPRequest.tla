---------------------------- MODULE HTTPRequest ----------------------------
(***************************************************************************)
(* How HTTPRequest.c takes a request apart.  A string is a sequence of     *)
(* separators, one character each, and of words, which stand for any two   *)
(* or more characters that are no separators; the terminator is its end.   *)
(***************************************************************************)
EXTENDS Integers, Sequences, SequencesExt

LF == "\n"
CR == "\r"
Separators == {LF, CR, " ", ":", "|", "&", "="}

NULL == <<>>    \* the null pointer: strtok finds no empty strings

Characters == STRING \cup Separators
Strings == Seq(Characters)
RequestText == [method : Strings, uri : Strings, http_version : Strings,
                headers : Seq([key : Strings, colon : Strings, value : Strings]),
                body : Strings, eol : Strings]

\* Where a string has the first character that is none of delims, and, from
\* there on, the first that is one; 0 if there is none.
TokenStart(string, delims) == SelectInSeq(string, LAMBDA c : c \notin delims)
TokenEnd(string, delims, start) ==
    SelectInSubSeq(string, start, Len(string), LAMBDA c : c \in delims)

\* strtok: what stands between characters of delims, and what follows.
Strtok(string, delims) ==
    LET first == TokenStart(string, delims)
        past  == TokenEnd(string, delims, first)
        last  == IF past = 0 THEN Len(string) ELSE past - 1
    IN  IF first = 0 THEN [token |-> NULL, rest |-> NULL]
        ELSE [token |-> SubSeq(string, first, last),
              rest  |-> SubSeq(string, last + 2, Len(string))]

\* strtok(NULL, "\0"): all that is left.
Remainder(s) == s.rest

\* Mutant: the first line end of two becomes the bar.
MarkBlankLines_First(s) ==
    [i \in DOMAIN s |-> IF i < Len(s) - 1 /\ s[i] = LF /\ s[i + 1] = LF THEN "|" ELSE s[i]]

\* The second of two line ends becomes a bar, but for the last character,
\* which the loop does not get to.
MarkBlankLines(s) ==
    LET marked[i \in 0..Len(s)] ==
            /\ i > 1 /\ i < Len(s)
            /\ s[i] = LF /\ s[i - 1] = LF /\ ~marked[i - 1]
    IN  [i \in DOMAIN s |-> IF marked[i] THEN "|" ELSE s[i]]

\* strlen(requested) - 2 is unsigned: below two characters the loop leaves the
\* stack.
TooShort(s) == s = <<>> \/ (Len(s) = 1 /\ s[1] \in Separators)

\* The three strings the constructor makes of a request.
Split(s) ==
    LET line   == Strtok(MarkBlankLines(s), {LF})
        upper  == Strtok(line.rest, {"|"})
    IN  [line |-> line.token, fields |-> upper.token, body |-> Strtok(upper.rest, {"|"}).token]

\* The three strings of the request line.
RequestLine(s) ==
    LET method == Strtok(s, {" "})
        uri    == Strtok(method.rest, {" "})
    IN  [method |-> method.token, uri |-> uri.token, http_version |-> Remainder(uri)]

\* Mutant: empty lines are kept, as strsep keeps them.
Lines_Empty(s) ==
    LET starts == {i \in DOMAIN s : i = 1 \/ s[i - 1] = LF}
        Start(n) == CHOOSE i \in starts : Cardinality({j \in starts : j <= i}) = n
        Line(i) == IF s[i] = LF THEN NULL ELSE Strtok(SubSeq(s, i, Len(s)), {LF}).token
    IN  [n \in 1..Cardinality(starts) |-> Line(Start(n))]

\* The lines of the header fields, which is where strtok stops after each.
Lines(s) ==
    LET starts == {i \in DOMAIN s : s[i] # LF /\ (i = 1 \/ s[i - 1] = LF)}
        Start(n) == CHOOSE i \in starts : Cardinality({j \in starts : j <= i}) = n
    IN  [n \in 1..Cardinality(starts) |-> Strtok(SubSeq(s, Start(n), Len(s)), {LF}).token]

\* Mutant: the space stays.
KeyValue_Space(s) ==
    LET key == Strtok(s, {":"}) IN [key |-> key.token, present |-> key.rest # NULL, value |-> key.rest]

\* A header line cut at its first colon.  There is no value behind a colon
\* that ends the line; one leading space is not part of it.
KeyValue(s) ==
    LET key   == Strtok(s, {":"})
        value == Remainder(key)
    IN  [key |-> key.token,
         present |-> value # NULL,
         value |-> IF value # NULL /\ value[1] = " " THEN Tail(value) ELSE value]

\* insert_dict: the first value of a key stays (FirstWinsMap).
Inserted(dict, key, value) ==
    [k \in {key} \cup DOMAIN dict |-> IF k \in DOMAIN dict THEN dict[k] ELSE value]
=============================================================================
