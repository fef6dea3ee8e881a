---------------------------- MODULE ClientConf -----------------------------
(***************************************************************************)
(* The configuration file of send_nsca: src/client/conf.c.                 *)
(*                                                                         *)
(* One action is one turn of the loop in read_conf_line, which reads into  *)
(* a string that grows, or the parsing of the line it returns.  The names  *)
(* of the settings are bytes here, and there are two: "server", a string,  *)
(* and "timeout", an integer, kept as the sequence of its digits.          *)
(***************************************************************************)
EXTENDS Util

CONSTANTS
  LineSize,    \* the size that read_conf_line begins with
  ValueSize,   \* sizeof(value) in parse_conf_file
  ConfFiles    \* the files that are read: sequences of settings

ASSUME SizesAssumption == LineSize \in Nat \ {0, 1} /\ ValueSize \in Nat \ {0}

VARIABLES
  file,        \* what was not read of the file
  settings,    \* the settings in it
  conf         \* the state of conf_init: line and pos, size in
               \*   read_conf_line; values; status: "fgets", "parse", and in the
               \*   end "done", "died", or "undefined" (no NUL ends the line)

confVars == <<file, settings, conf>>

Quotes == {"\"", "'"}
Digits == {"1", "2"}

-----------------------------------------------------------------------------
(* read_conf_line.                                                         *)

\* fgets(3): up to a newline, and no more than there is room for.
Chunk ==
  LET room == conf.size - conf.pos - 1
      nl   == SelectInSeq(file, LAMBDA c : c = "NL")
      end  == IF nl = 0 THEN Len(file) ELSE nl
  IN SubSeq(file, 1, IF room < end THEN room ELSE end)

\* Mutant: the carriage return stays in the line.
EndOfLine_KeepsCR(line, pos) ==
  IF pos >= 2 /\ line[pos - 1] = "\\"
  THEN [conf EXCEPT !.line = line, !.pos = pos - 2]
  ELSE [conf EXCEPT !.line = line, !.pos = pos, !.status = "parse"]

\* A complete line, or the last one: a backslash before its last byte makes
\* the next turn go on there; the string itself is left as it is.
EndOfLine(line, pos) ==
  CASE pos >= 2 /\ line[pos - 1] = "\\" ->
         [conf EXCEPT !.line = line, !.pos = pos - 2]
    [] pos >= 2 /\ line[pos - 1] = "CR" ->
         [conf EXCEPT !.line = Append(SubSeq(line, 1, pos - 2), "NL"),
                      !.pos = pos - 1, !.status = "parse"]
    [] OTHER -> [conf EXCEPT !.line = line, !.pos = pos, !.status = "parse"]

xfgets ==
  LET line == SubSeq(conf.line, 1, conf.pos) \o Chunk
      pos  == Len(line)
  IN /\ conf.status = "fgets"
     /\ conf' = IF Chunk = <<>> THEN [conf EXCEPT !.status = "parse"]
                ELSE IF Last(line) # "NL" /\ pos = conf.size - 1
                THEN [conf EXCEPT !.line = line, !.pos = pos, !.size = 2 * @]
                ELSE EndOfLine(line, pos)
     /\ file' = SubSeq(file, Len(Chunk) + 1, Len(file))
     /\ UNCHANGED settings

-----------------------------------------------------------------------------
(* parse_conf_file.                                                        *)

\* One turn of the loop that copies a value; n counts the bytes consumed.
ScanByte(quote, r, c) ==
  LET ends == c = quote \/ (quote = "none" /\ c \in Blanks \cup {"#"})
      next == [r EXCEPT !.n = @ + 1]
  IN IF r.done \/ r.long THEN r
     ELSE IF Len(r.value) >= ValueSize - 1 THEN [r EXCEPT !.long = TRUE]
     ELSE IF r.escape THEN [next EXCEPT !.value = Append(@, c), !.escape = FALSE]
     ELSE IF ends THEN [next EXCEPT !.done = TRUE]
     ELSE IF c = "\\" THEN [next EXCEPT !.escape = TRUE]
     ELSE [next EXCEPT !.value = Append(@, c)]

Scan(quote, s) ==
  FoldLeft(LAMBDA r, c : ScanByte(quote, r, c),
           [value |-> <<>>, n |-> 0, escape |-> FALSE, done |-> FALSE, long |-> FALSE], s)

\* strtol(3) takes all of the value; an empty one is 0.
Numeric(value) ==
  LET digits == skip_whitespace(value)
  IN value = <<>> \/ (digits # <<>> /\ Range(digits) \subseteq Digits)

Die == [conf EXCEPT !.status = "died"]
NextLine == [conf EXCEPT !.line = <<>>, !.pos = 0, !.size = LineSize, !.status = "fgets"]

Assign(key, value) ==
  IF key = "timeout" /\ ~Numeric(value) THEN Die
  ELSE [NextLine EXCEPT !.values[key] =
          IF key = "timeout" THEN skip_whitespace(value) ELSE value]

\* The value, and the end of the line.
ParseValue(key, s) ==
  LET quote == IF Head(s) \in Quotes THEN Head(s) ELSE "none"
      text  == IF quote = "none" THEN s ELSE Tail(s)
      r     == Scan(quote, text)
      rest  == skip_whitespace(SubSeq(text, r.n + 1, Len(text)))
  IN IF r.long \/ (rest # <<>> /\ Head(rest) # "#") THEN Die
     ELSE Assign(key, r.value)

IsEmpty(s) == s = <<>> \/ Head(s) = "#"

\* The key and the equals sign.
ParseLine(line) ==
  LET token == skip_whitespace(line)
      end   == SelectInSeq(token, LAMBDA c : c \in Blanks \cup {"="})
      key   == SubSeq(token, 1, IF end = 0 THEN Len(token) ELSE end - 1)
      equal == skip_whitespace(SubSeq(token, Len(key) + 1, Len(token)))
      value == skip_whitespace(Tail(equal))
  IN IF IsEmpty(token) THEN NextLine
     ELSE IF \/ key \notin {<<k>> : k \in DOMAIN conf.values}
             \/ equal = <<>> \/ Head(equal) # "=" \/ IsEmpty(value)
     THEN Die
     ELSE ParseValue(key[1], value)

\* What read_conf_line returns is shrunk to pos + 1 bytes.
ParseConf ==
  LET line == chomp(conf.line)
  IN /\ conf.status = "parse"
     /\ conf' = IF conf.pos = 0 THEN [conf EXCEPT !.status = "done"]
                ELSE IF Len(line) > conf.pos THEN [conf EXCEPT !.status = "undefined"]
                ELSE ParseLine(line)
     /\ UNCHANGED <<file, settings>>

ConfNext == xfgets \/ ParseConf

-----------------------------------------------------------------------------
(* The administrator, who writes by the rules of send_nsca.cfg(5).  A      *)
(* setting: its key and value, the quotes around it, the comment with the  *)
(* blank before it, if there is one, how the line ends, and where it is    *)
(* broken with a backslash (0 if it is not).  Key "none" is a line with    *)
(* nothing but a comment.                                                  *)

Quoted(value, quote) ==
  LET escaped == FlattenSeq([i \in 1..Len(value) |->
                   IF value[i] \in {"\\", quote} THEN <<"\\", value[i]>> ELSE <<value[i]>>])
  IN IF quote = "none" THEN escaped ELSE <<quote>> \o escaped \o <<quote>>

LogicalLine(s) ==
  (IF s.key = "none" THEN <<" ">>
   ELSE <<s.key, " ", "=">> \o Quoted(s.value, s.quote))
  \o s.comment

Broken(text, at) ==
  IF at = 0 THEN text
  ELSE SubSeq(text, 1, at) \o <<"\\", "NL">> \o SubSeq(text, at + 1, Len(text))

PhysicalLine(s) == Broken(LogicalLine(s), s.break) \o s.end

\* Quotes are needed around a value that is empty or contains special
\* characters; a line does not end with a backslash unless it is broken there.
Documented(s) ==
  /\ s.quote = "none" =>
       s.value # <<>> /\ Range(s.value) \cap (Blanks \cup Quotes \cup {"#"}) = {}
  /\ s.break <= Len(LogicalLine(s))
  /\ Last(LogicalLine(s)) # "\\"

Text(ss) == FlattenSeq([i \in 1..Len(ss) |-> PhysicalLine(ss[i])])

Unset == [server |-> <<"localhost">>, timeout |-> <<"1", "2">>]

Fresh == [line |-> <<>>, pos |-> 0, size |-> LineSize, values |-> Unset, status |-> "fgets"]

ConfIdle == file = <<>> /\ settings = <<>> /\ conf = [Fresh EXCEPT !.status = "done"]

ConfInit ==
  /\ settings \in ConfFiles /\ \A i \in DOMAIN settings : Documented(settings[i])
  /\ file = Text(settings)
  /\ conf = Fresh

-----------------------------------------------------------------------------
\* The last setting of each name counts.
Meant ==
  FoldLeft(LAMBDA values, s : IF s.key = "none" THEN values
                              ELSE [values EXCEPT ![s.key] = s.value],
           Unset, settings)

\* The last line does not end with a newline, and a backslash precedes its
\* last byte; or it is broken at its end, and the file ends there.
Ragged ==
  LET text == LogicalLine(Last(settings))
  IN /\ Last(settings).end = <<>>
     /\ \/ Last(settings).break = Len(text)
        \/ Len(text) >= 2 /\ text[Len(text) - 1] = "\\"

\* A value of ValueSize - 1 bytes fits only at the end of its line: the room
\* is checked before the quote, blank or hash mark that ends it is looked at.
TooLong(s) ==
  \/ Len(s.value) >= ValueSize
  \/ Len(s.value) = ValueSize - 1 /\ (s.quote # "none" \/ s.comment # <<>>)

NoNumber(s) == s.key = "timeout" /\ ~Numeric(s.value)

\* A comment that directly follows a value without quotes: the loop takes the
\* hash mark for the end of the value, and its text for unexpected stuff.
Swallowed(s) ==
  s.key # "none" /\ s.quote = "none" /\ s.comment # <<>> /\ Head(s.comment) = "#"

\* A file that is written as send_nsca.cfg(5) tells has the effect that was
\* meant: whatever is quoted or escaped, wherever lines are broken, however
\* long they are and however they end, the values are the ones written, and a
\* file is refused only for a value that does not fit or is no number.  The
\* exceptions: a value that has no quotes must not be followed directly by a
\* comment, which refuses a file that the manual page allows; and a ragged end
\* of the file may leave the last line without its NUL.
ConfAsWritten ==
  /\ conf.status = "done" =>
       conf.values = Meant /\ \A i \in DOMAIN settings : Len(settings[i].value) < ValueSize
  /\ conf.status = "died" =>
       \E i \in DOMAIN settings :
         TooLong(settings[i]) \/ NoNumber(settings[i]) \/ Swallowed(settings[i])
  /\ conf.status = "undefined" => Ragged

=============================================================================
