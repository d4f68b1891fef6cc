----------------------------- MODULE ProfileText -----------------------------
(***************************************************************************)
(* The text of profiles.txt (app_profile.cpp): sections named for an       *)
(* executable, each followed by the arguments stored for it.  A text is a  *)
(* sequence of lines, a line or an argument a sequence of characters; "A"  *)
(* stands for the letters written large, " " for blanks and tabs.          *)
(***************************************************************************)
EXTENDS Integers, Sequences, SequencesExt, FiniteSetsExt

Quote == "quote"   \* the character "

TrimWhitespace(value) ==
    LET ink == {k \in DOMAIN value : value[k] # " "}
    IN  IF ink = {} THEN <<>> ELSE SubSeq(value, Min(ink), Max(ink))

Lower(value) == [k \in DOMAIN value |-> IF value[k] = "A" THEN "a" ELSE value[k]]

EqualsIgnoringCase(left, right) == Lower(left) = Lower(right)

NeedsQuoting(value) == value = <<>> \/ ToSet(value) \cap {" ", Quote} # {}

\* The tokens of a line, after those read before it; quoted at the end is an error.
TokenizeProfileLine(line, tokens) ==
    LET Ended(s) == IF s.in_token
                    THEN [s EXCEPT !.tokens = Append(@, s.current), !.current = <<>>,
                                   !.in_token = FALSE]
                    ELSE s
        Read(s, c) ==
            CASE s.quoted /\ c = Quote -> [s EXCEPT !.quoted = FALSE]
              [] s.quoted /\ c # Quote -> [s EXCEPT !.current = Append(@, c)]
              [] ~s.quoted /\ c = Quote -> [s EXCEPT !.quoted = TRUE, !.in_token = TRUE]
              [] ~s.quoted /\ c = " " -> Ended(s)
              [] OTHER -> [s EXCEPT !.current = Append(@, c), !.in_token = TRUE]
        start == [tokens |-> tokens, current |-> <<>>, in_token |-> FALSE, quoted |-> FALSE]
        read == FoldLeft(Read, start, line)
    IN  IF read.quoted THEN read ELSE Ended(read)

\* The place of an executable's entry, 0 when it has none.
Find(entries, name) ==
    LET same == {k \in DOMAIN entries : EqualsIgnoringCase(entries[k].executable, name)}
    IN  IF same = {} THEN 0 ELSE Min(same)

\* A section header; a repeated one goes on with the first of its name.
ParseHeader(result, line) ==
    LET name == TrimWhitespace(SubSeq(line, 2, Len(line) - 1))
        place == Find(result.entries, name)
    IN  IF Last(line) # "]" \/ Len(line) <= 2 THEN [result EXCEPT !.error = "header"]
        ELSE IF name = <<>> THEN [result EXCEPT !.error = "name"]
        ELSE IF place # 0 THEN [result EXCEPT !.current = place]
        ELSE [result EXCEPT !.entries = Append(@, [executable |-> name, arguments |-> <<>>]),
                            !.current = Len(result.entries) + 1]

ParseArguments(result, line) ==
    LET read == TokenizeProfileLine(line, result.entries[result.current].arguments)
    IN  IF result.current = 0 THEN [result EXCEPT !.error = "section"]
        ELSE [result EXCEPT !.entries[result.current].arguments = read.tokens,
                            !.error = IF read.quoted THEN "quote" ELSE "none"]

\* Nothing is read after an error.
ParseLine(result, line) ==
    LET trimmed == TrimWhitespace(line)
    IN  IF result.error # "none" \/ trimmed = <<>> THEN result
        ELSE CASE trimmed[1] \in {"#", ";"} -> result
               [] trimmed[1] = "[" -> ParseHeader(result, trimmed)
               [] OTHER -> ParseArguments(result, trimmed)

ParseProfiles(text) ==
    FoldLeft(ParseLine, [entries |-> <<>>, current |-> 0, error |-> "none"], text)

\* Comments, then each section after an empty line; the file ends with a new line.
FormatProfiles(entries) ==
    LET Written(value) == IF NeedsQuoting(value) THEN <<Quote>> \o value \o <<Quote>> ELSE value
        Section(entry) == << <<>>, <<"[">> \o entry.executable \o <<"]">> >>
                             \o [k \in DOMAIN entry.arguments |-> Written(entry.arguments[k])]
    IN  << <<"#">> >> \o FlattenSeq([k \in DOMAIN entries |-> Section(entries[k])])

\* The arguments stored for an executable, as a set of at most one.
FindProfileArguments(entries, executable) ==
    LET place == Find(entries, executable) IN
    IF executable = <<>> \/ place = 0 THEN {} ELSE {entries[place].arguments}
==============================================================================
