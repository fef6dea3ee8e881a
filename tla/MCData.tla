------------------------------ MODULE MCData -------------------------------
(* Small instances of modules Buffer, CheckInput and ClientConf for TLC.  They *)
(* share no state: a behaviour is one of the three, and the others rest.       *)
EXTENDS CheckInput, ClientConf

VARIABLE part   \* the one that runs

MCBytes == {"a", "NL", "CR", "NUL"}

\* Submissions: the message has the bytes that matter for the escaping, and
\* the delimiter of commands; the hosts are such that one begins like another.
MCHosts == {<<"h">>, <<"h", "h">>, <<"g">>}
MCMessages == BoundedSeq({"m", "n", "\\", "NL", ";"}, 2)
MCHostResults(messages) ==
  {[what |-> "host", fields |-> <<h, <<"0">>, m>>] : h \in MCHosts, m \in messages}
MCServiceResults(messages) ==
  {[what |-> "service", fields |-> <<h, s, <<"0">>, m>>] :
     h \in MCHosts, s \in {<<"s">>, <<"s", "@", "h">>}, m \in messages}
MCFaulty == {[what |-> "faulty", fields |-> <<<<"h">>, <<"0">>>>]}
MCCommands ==
  {[what |-> w, fields |-> <<c>>] :
     w \in {"command", "stamped"}, c \in {<<"C">>, <<"C", "]", "x">>, <<"D", ";", "h">>}}

MCSome == MCHostResults({<<"n">>}) \cup MCServiceResults({<<"\\">>}) \cup MCFaulty
MCChecks == MCHostResults(MCMessages) \cup MCServiceResults(MCMessages) \cup MCFaulty
MCSubmissions ==
  {<<s>> : s \in MCChecks \cup MCCommands}
    \cup {<<s, t>> : s \in MCSome, t \in MCSome}
    \cup {<<s, t>> : s \in MCCommands, t \in MCCommands}

\* One client has a section with its own services and the global hosts; the
\* others share the section of "*".  One of its patterns has alternatives.
MCSections ==
  [id \in {"c", "*"} |->
    IF id = "c" THEN [hosts |-> {}, services |-> {<<"s", "@", "h">>}, commands |-> {}]
    ELSE [hosts |-> {<<"g">>, <<"g", "|", "h", "h">>}, services |-> {<<"s">>, <<"s", "@", "h", "@", "g">>},
          commands |-> {<<"C">>, <<"D", ";", "h">>}]]
MCDefaults == [hosts |-> {<<"h">>}, services |-> {}, commands |-> {<<"C", "]", "x">>}]

\* Files of one setting, with every value of up to two special bytes or one
\* that is long, or of a few settings.
MCValues == BoundedSeq({"a", "\\", "\"", "#", " "}, 2) \cup {<<"a", "\\", "a">>, <<"a", "a", "a", "a">>}
MCComments == {<<>>, <<" ", "#", "a">>, <<"#", "a">>}
MCLines(keys, values, breaks, ends) ==
  [key : keys, value : values, quote : {"none", "\"", "'"}, comment : MCComments,
   break : breaks, end : ends]
MCEnds == {<<"NL">>, <<"CR", "NL">>, <<>>}
MCNumbers == {<<"1">>, <<"2", "1">>, <<"a">>}
MCConfFiles ==
  {<<l>> : l \in MCLines({"server"}, MCValues, 0..10, MCEnds)}
    \cup {<<k, l>> :
           k \in MCLines({"none", "server", "timeout"}, {<<"1">>}, {0, 3}, {<<"NL">>, <<"CR", "NL">>}),
           l \in MCLines({"server", "timeout"}, MCNumbers, {0, 4}, MCEnds)}

MCInit ==
  /\ part \in {"buffer", "input", "conf"}
  /\ BufferInit
  /\ IF part = "input" THEN InputInit ELSE InputIdle
  /\ IF part = "conf" THEN ConfInit ELSE ConfIdle

MCNext ==
  /\ part' = part
  /\ \/ part = "buffer" /\ BufferNext /\ UNCHANGED inputVars /\ UNCHANGED confVars
     \/ part = "input" /\ InputNext /\ UNCHANGED bufferVars /\ UNCHANGED confVars
     \/ part = "conf" /\ ConfNext /\ UNCHANGED bufferVars /\ UNCHANGED inputVars

MCSpec == MCInit /\ [][MCNext]_<<part, bufferVars, inputVars, confVars>>

=============================================================================
