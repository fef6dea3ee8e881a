---------------------------- MODULE CheckInput -----------------------------
(***************************************************************************)
(* The way of the data: what the user writes to the standard input of      *)
(* send_nsca is cut into chunks (src/client/input.c), turned into commands *)
(* (src/client/parse.c), and authorized by the server (src/server/auth.c)  *)
(* with the patterns of its configuration (src/server/conf.c).  Module     *)
(* Client has the order of events, this one the bytes.                     *)
(*                                                                         *)
(* A string is a sequence of bytes.  A key word such as                    *)
(* PROCESS_HOST_CHECK_RESULT is one byte, as is the number of seconds in a *)
(* time stamp, "T".  A regular expression is a sequence of characters,     *)
(* which stand for themselves, and of the operators ".+", "[^;]+", "NL?",  *)
(* and "|" at its top level.                                               *)
(***************************************************************************)
EXTENDS Buffer, Util

CONSTANTS
  ReadSize,    \* sizeof(input->input)
  Submissions, \* what a user may submit: sequences of submissions
  Sections,    \* the authorize sections of the server: a function on identities
  Defaults,    \* the global hosts, services and commands settings
  Identities   \* the identities of clients

VARIABLES
  typed,       \* standard input, as far as it was not read
  meant,       \* the submissions in it whose chunk was not handled yet
  reader,      \* the input_state: mode, separator, buffer, eof
  sent,        \* the last submission and the command that was made of it
  identity     \* the client's identity

inputVars == <<typed, meant, reader, sent, identity>>

Stamp == <<"[", "T", "]", " ">>
Delimiter == "TAB"
Died == <<"died">>

-----------------------------------------------------------------------------
(* src/client/parse.c.                                                     *)

\* The fields of s, at most n: the delimiter has no meaning in the last one.
Fields(s, delimiter, n) ==
  LET at == {i \in 1..Len(s) : s[i] = delimiter}
      Nth(k) == CHOOSE i \in at : Cardinality({j \in at : j <= i}) = k
      count == 1 + (IF Cardinality(at) < n - 1 THEN Cardinality(at) ELSE n - 1)
      From(k) == IF k = 1 THEN 1 ELSE Nth(k - 1) + 1
      To(k) == IF k = count THEN Len(s) ELSE Nth(k) - 1
  IN [k \in 1..count |-> SubSeq(s, From(k), To(k))]

\* Mutant: only newlines are escaped.
escape_Newlines(s) ==
  FlattenSeq([i \in 1..Len(s) |-> IF s[i] = "NL" THEN <<"\\", "n">> ELSE <<s[i]>>])

escape(s) ==
  FlattenSeq([i \in 1..Len(s) |->
    CASE s[i] = "\\" -> <<"\\", "\\">>
      [] s[i] = "NL" -> <<"\\", "n">>
      [] OTHER -> <<s[i]>>])

Semicolons(fields) ==
  FlattenSeq([k \in 1..Len(fields) |-> <<";">> \o fields[k]])

\* The command, or Died when send_nsca gives up because of the format.
parse_check_result(input) ==
  LET fields == Fields(escape(input), Delimiter, 4)
  IN CASE Len(fields) = 3 ->
            Stamp \o <<"PROCESS_HOST_CHECK_RESULT">> \o Semicolons(fields)
       [] Len(fields) = 4 ->
            Stamp \o <<"PROCESS_SERVICE_CHECK_RESULT">> \o Semicolons(fields)
       [] OTHER -> Died

parse_command(line) ==
  LET s == skip_whitespace(line)
  IN IF s # <<>> /\ Head(s) = "[" THEN s ELSE Stamp \o s

-----------------------------------------------------------------------------
(* src/server/conf.c and src/server/auth.c.                                *)

\* fallback_to_defaults, for one setting of a section.
Setting(section, name) ==
  IF section[name] = {} THEN Defaults[name] ELSE section[name]

host_to_command(pattern) ==
  <<"PROCESS_HOST_CHECK_RESULT", ";">> \o pattern \o <<";", ".+">>

service_to_command(pattern) ==
  LET at      == SelectLastInSeq(pattern, LAMBDA c : c = "@")
      host    == IF at = 0 THEN <<"[^;]+">>
                 ELSE SubSeq(pattern, at + 1, Len(pattern))
      service == IF at = 0 THEN pattern ELSE SubSeq(pattern, 1, at - 1)
  IN <<"PROCESS_SERVICE_CHECK_RESULT", ";">> \o host \o <<";">> \o service
       \o <<";", ".+", ";", ".+">>

Patterns(section) ==
  {host_to_command(p) : p \in Setting(section, "hosts")}
    \cup {service_to_command(p) : p \in Setting(section, "services")}
    \cup Setting(section, "commands")

\* regexec(3): the positions in s that one element of a pattern leads to.
Reached(s, from, element) ==
  CASE element = ".+" -> {j \in 1..Len(s) : \E i \in from : i < j}
    [] element = "[^;]+" ->
         {j \in 1..Len(s) : \E i \in from : i < j /\ ";" \notin {s[k] : k \in i + 1..j}}
    [] element = "NL?" -> from \cup {j \in 1..Len(s) : j - 1 \in from /\ s[j] = "NL"}
    [] OTHER -> {j \in 1..Len(s) : j - 1 \in from /\ s[j] = element}

Ends(s, from, elements) == FoldLeft(LAMBDA i, e : Reached(s, i, e), from, elements)

Alternatives(pattern) == Fields(pattern, "|", Len(pattern) + 1)

\* The pattern is put between "^" and "\n?$" without parentheses: the first
\* alternative alone begins at the beginning of the command, and the last one
\* alone ends at its end.
match(pattern, s) ==
  LET parts == Alternatives(pattern)
      From(k) == IF k = 1 THEN {0} ELSE 0..Len(s)
  IN \/ \E k \in 1..Len(parts) - 1 : Ends(s, From(k), parts[k]) # {}
     \/ Len(s) \in Ends(s, From(Len(parts)), Append(Last(parts), "NL?"))

\* The identity's own section, or the one of "*".
hash_lookup(id) ==
  IF id \in DOMAIN Sections THEN {Sections[id]}
  ELSE IF "*" \in DOMAIN Sections THEN {Sections["*"]} ELSE {}

\* What is left of a command without its time stamp.
Unstamped(command) ==
  skip_whitespace(SubSeq(command, SelectInSeq(command, LAMBDA c : c = "]") + 1,
                         Len(command)))

is_authorized(id, command) ==
  /\ hash_lookup(id) # {}
  /\ SelectInSeq(command, LAMBDA c : c = "NL") = Len(command)
  /\ command # <<>> /\ Contains(command, "]")
  /\ \E section \in hash_lookup(id) : \E p \in Patterns(section) :
       match(p, Unstamped(command))

-----------------------------------------------------------------------------
(* src/client/input.c and handle_input_chunk of src/client/client.c: the   *)
(* turns of the loop in read_cb.                                           *)

\* A chunk with nothing but newlines is ignored.  The newline that ends the
\* command takes the place of its NUL.
handle_input_chunk(chunk) ==
  LET data    == skip_newlines(chunk)
      command == IF reader.mode = "check" THEN parse_check_result(chomp(data))
                 ELSE parse_command(data)
  IN IF data = <<>> THEN UNCHANGED <<meant, sent>>
     ELSE /\ sent' = [of |-> SubSeq(meant, 1, 1),
                      command |-> IF command = Died THEN Died ELSE Append(command, "NL")]
          /\ meant' = SubSeq(meant, 2, Len(meant))

NextChunk == buffer_read_chunk(reader.buffer, reader.separator)

GotChunk ==
  /\ sent.command # Died /\ NextChunk.value # Null
  /\ reader' = [reader EXCEPT !.buffer = NextChunk.b]
  /\ handle_input_chunk(NextChunk.value)
  /\ UNCHANGED <<typed, identity>>

GotBytes(n) ==
  /\ sent.command # Died /\ NextChunk.value = Null /\ n <= Len(typed)
  /\ reader' = [reader EXCEPT !.buffer = buffer_append(@, SubSeq(typed, 1, n))]
  /\ typed' = SubSeq(typed, n + 1, Len(typed))
  /\ UNCHANGED <<meant, sent, identity>>

GotEof ==
  /\ sent.command # Died /\ NextChunk.value = Null
  /\ typed = <<>> /\ ~reader.eof
  /\ LET r == buffer_read(reader.buffer, reader.buffer.size)
     IN /\ reader' = [reader EXCEPT !.buffer = r.b, !.eof = TRUE]
        /\ handle_input_chunk(r.data)
  /\ UNCHANGED <<typed, identity>>

InputNext == GotChunk \/ (\E n \in 1..ReadSize : GotBytes(n)) \/ GotEof

-----------------------------------------------------------------------------
(* The user.  A submission is a check result (`what' is "host" or          *)
(* "service", and the fields are separated by tabs) or a command, with or  *)
(* without its time stamp.  Each is on lines of its own, and check results *)
(* are separated by the byte ETB.  A "faulty" one lacks a field.           *)

Tabbed(fields) == Tail(FlattenSeq([k \in 1..Len(fields) |-> <<Delimiter>> \o fields[k]]))

Written(s) ==
  CASE s.what = "command" -> s.fields[1] \o <<"NL">>
    [] s.what = "stamped" -> <<" ">> \o Stamp \o s.fields[1] \o <<"NL">>
    [] OTHER -> Tabbed(s.fields) \o <<"NL">>

\* The last separator may be missing.
Texts(submissions, separator) ==
  LET all == [k \in 1..Len(submissions) |-> Written(submissions[k]) \o separator]
      text == FlattenSeq(all)
  IN {text, SubSeq(text, 1, Len(text) - 1)} \ {<<>>}

Mode(submissions) ==
  IF submissions[1].what \in {"host", "service", "faulty"} THEN "check" ELSE "command"

InputIdle ==
  /\ typed = <<>> /\ meant = <<>> /\ identity = "none"
  /\ reader = [mode |-> "check", separator |-> "ETB", buffer |-> buffer_new, eof |-> TRUE]
  /\ sent = [of |-> <<>>, command |-> <<>>]

InputInit ==
  \E submissions \in Submissions :
    LET mode == Mode(submissions)
    IN /\ typed \in Texts(submissions, IF mode = "check" THEN <<"ETB">> ELSE <<>>)
       /\ meant = submissions
       /\ identity \in Identities
       /\ reader = [mode |-> mode, buffer |-> buffer_new, eof |-> FALSE,
                    separator |-> IF mode = "check" THEN "ETB" ELSE "NL"]
       /\ sent = [of |-> <<>>, command |-> <<>>]

-----------------------------------------------------------------------------
\* What Nagios makes of "\\n" and "\\\\" in a field.
Unescaped(s) ==
  FoldLeft(LAMBDA r, c :
             CASE r.escape /\ c = "n" -> [s |-> Append(r.s, "NL"), escape |-> FALSE]
               [] ~r.escape /\ c = "\\" -> [r EXCEPT !.escape = TRUE]
               [] OTHER -> [s |-> Append(r.s, c), escape |-> FALSE],
           [s |-> <<>>, escape |-> FALSE], s).s

\* What the server's commands stand for in Nagios.
Understood(command) ==
  LET body   == Unstamped(Front(command))
      fields == Fields(body, ";", IF body[1] = "PROCESS_HOST_CHECK_RESULT" THEN 4 ELSE 5)
  IN IF body[1] \in {"PROCESS_HOST_CHECK_RESULT", "PROCESS_SERVICE_CHECK_RESULT"}
     THEN [k \in 1..Len(fields) - 1 |-> Unescaped(fields[k + 1])]
     ELSE <<body>>

\* What nsca-ng.cfg(5) says of the settings of a client.
Names(pattern, name) == name \in Range(Alternatives(pattern))

Permitted(id, s) ==
  \E section \in hash_lookup(id) :
    CASE s.what = "host" -> \E p \in Setting(section, "hosts") : Names(p, s.fields[1])
      [] s.what = "service" ->
           \E p \in Setting(section, "services") :
             LET at == SelectLastInSeq(p, LAMBDA c : c = "@")
             IN IF at = 0 THEN Names(p, s.fields[2])
                ELSE /\ Names(SubSeq(p, 1, at - 1), s.fields[2])
                     /\ Names(SubSeq(p, at + 1, Len(p)), s.fields[1])
      [] OTHER -> \E p \in Setting(section, "commands") : Names(p, s.fields[1])

\* One of the patterns that let the command pass is a list of alternatives.
Ungrouped(id, command) ==
  \E section \in hash_lookup(id) : \E p \in Patterns(section) :
    Contains(p, "|") /\ match(p, Unstamped(command))

\* However standard input is split into pieces, each submission becomes one
\* command, in order: Nagios reads from it the fields that the user wrote,
\* newlines and backslashes included, the server accepts it exactly if the
\* client's section permits a result for that host or service, or that
\* command, and at the end of the file nothing is left.  Only a check result
\* without enough fields ends send_nsca.  The exception: a pattern with "|" at
\* its top level lets more pass than it names, even results of another kind,
\* since its alternatives are not anchored on both sides.
SubmittedAsWritten ==
  /\ sent.command = Died => sent.of[1].what = "faulty"
  /\ sent.command \notin {<<>>, Died} =>
       /\ Len(sent.of) = 1
       /\ Understood(sent.command) = sent.of[1].fields
       /\ Permitted(identity, sent.of[1]) => is_authorized(identity, sent.command)
       /\ is_authorized(identity, sent.command) =>
            Permitted(identity, sent.of[1]) \/ Ungrouped(identity, sent.command)
  /\ reader.eof => meant = <<>>

=============================================================================
