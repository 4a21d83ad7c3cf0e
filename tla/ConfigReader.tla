---------------------------- MODULE ConfigReader ----------------------------
(***************************************************************************)
(* ConfigReader.cpp and the constructor of Config.cpp, which reads one     *)
(* string and several integers at start-up.                                *)
(*                                                                         *)
(* A line is a sequence of characters, one of each kind the parser tells   *)
(* apart: "p" stands for letters, "7" for digits, "q" for the quotation    *)
(* mark, "hash" and "sign" for # and =, and "blank" for blank and tab.     *)
(* Positions count from 0, as they do in std::string, and npos is -1.      *)
(***************************************************************************)
EXTENDS Integers, Sequences, FiniteSetsExt

CONSTANTS
  LINE_SIZE,   \* 100 in the code
  LengthMax,   \* bound: characters of the line of a file of one line
  LineMax,     \* bound: lines of a file made of Sample
  UNINIT,      \* what an int holds that nobody has set
  NONE,        \* ParseLine stores nothing
  THROWS       \* ParseLine throws std::out_of_range

Char == {"hash", "sign", "q", "blank", "p", "7"}
IP == <<"p", "p">>
Port == <<"p">>

\* Lines that set the port twice, the IP twice (the second with a line that may
\* be too long), and a comment.
Sample == {<<"p", "blank", "sign", "blank", "7">>,
           <<"p", "sign", "blank", "7", "7">>,
           <<"p", "p", "sign", "q", "7", "q">>,
           <<"p", "p", "blank", "sign", "blank", "q", "p", "q">>,
           <<"hash", "p", "blank", "sign", "blank", "7", "7">>}

\* What ParseLine may make of a line.
Entry == [key : Seq(Char), value : Seq(Char)]

ASSUME ConfigAssumption ==
  /\ LINE_SIZE \in Nat \ {0} /\ LengthMax \in Nat /\ LineMax \in Nat
  /\ NONE \notin Entry /\ THROWS \notin Entry \cup {NONE}

Upto(n, S) == UNION {[1 .. k -> S] : k \in 0 .. n}

VARIABLES
  file,        \* the lines of Config.cfg
  lineVec,     \* the lines getline has read
  m_Configs,   \* std::map<std::string, std::string>
  m_IP, m_Port,
  pc

config == <<file, lineVec, m_Configs, m_IP, m_Port, pc>>

\* A Config that nothing has been read into.
Fresh ==
  /\ lineVec = << >>
  /\ m_Configs = << >>
  /\ m_IP = << >> /\ m_Port = UNINIT
  /\ pc = "getline"

ConfigInit ==
  /\ file \in Upto(LineMax, Sample) \cup {<<line>> : line \in Upto(LengthMax, Char)}
  /\ Fresh
-----------------------------------------------------------------------------
(* std::string *)

npos == -1
filters == {"blank"}

\* The first position from `from' on, the last one up to `to', with a character in S.
FindFirst(line, S, from) ==
  LET found == {i \in from .. Len(line) - 1 : line[i + 1] \in S}
  IN IF found = {} THEN npos ELSE Min(found)

FindLast(line, S, to) ==
  LET found == {i \in 0 .. Len(line) - 1 : line[i + 1] \in S /\ (to = npos \/ i <= to)}
  IN IF found = {} THEN npos ELSE Max(found)

\* A negative count is a huge size_t: the rest of the line.
Substring(line, begin, count) ==
  SubSeq(line, begin + 1, IF count < 0 THEN Len(line) ELSE Min({begin + count, Len(line)}))
-----------------------------------------------------------------------------
(* ParseLine *)

\* In front of the sign, or, when nothing is there, from the sign to the end.
Key(line, pos) ==
  LET begin == FindFirst(line, Char \ filters, 0)
      end == FindLast(line, Char \ filters, pos - 1)
  IN Substring(line, begin, end - begin + 1)

\* Mutant: the search starts one character further.
IntegerBeginLate(line, pos) == FindFirst(line, Char \ filters, pos + 3)

\* pos was incremented once already when 1 is added to it.
IntegerBegin(line, pos) == FindFirst(line, Char \ filters, pos + 2)

\* What ParseLine does with a line: NONE, THROWS or an entry of m_Configs.
Parsed(line) ==
  LET pos == FindFirst(line, {"sign"}, 0)
      quotation == FindFirst(line, {"q"}, pos + 1)
      begin == IntegerBegin(line, pos)
      end == FindLast(line, Char \ filters, npos)
      integer == quotation = npos
  IN IF \/ FindFirst(line, {"hash"}, 0) # npos \/ pos = npos
        \/ ~integer /\ end <= quotation
     THEN NONE
     ELSE IF integer /\ begin = npos THEN THROWS
     ELSE [key |-> Key(line, pos),
           value |-> IF integer THEN Substring(line, begin, end - begin + 1)
                     ELSE Substring(line, quotation + 1, end - quotation - 1)]

\* Mutant: a later line overwrites an earlier one.
Overwritten(e) ==
  [k \in DOMAIN m_Configs \cup {e.key} |-> IF k = e.key THEN e.value ELSE m_Configs[k]]

\* std::map::insert keeps what is there.
Inserted(e) ==
  [k \in DOMAIN m_Configs \cup {e.key} |->
     IF k \in DOMAIN m_Configs THEN m_Configs[k] ELSE e.value]
-----------------------------------------------------------------------------
\* getline fails at the end of the file, and for good at a line that does not
\* fit into its buffer.
GetLine ==
  /\ pc = "getline"
  /\ LET n == Len(lineVec) + 1 IN
       IF n <= Len(file) /\ Len(file[n]) < LINE_SIZE
       THEN lineVec' = Append(lineVec, file[n]) /\ pc' = pc
       ELSE lineVec' = lineVec /\ pc' = "ParseLine"
  /\ UNCHANGED <<file, m_Configs, m_IP, m_Port>>

\* Nobody catches the std::out_of_range of a value that begins nowhere.
ParseLine ==
  /\ pc = "ParseLine" /\ lineVec # << >>
  /\ lineVec' = Tail(lineVec)
  /\ LET e == Parsed(Head(lineVec)) IN
       /\ m_Configs' = IF e \in {NONE, THROWS} THEN m_Configs ELSE Inserted(e)
       /\ pc' = IF e = THROWS THEN "terminated" ELSE pc
  /\ UNCHANGED <<file, m_IP, m_Port>>

\* The digits that operator>> takes, after blanks.
Digits(value) ==
  LET begin == FindFirst(value, Char \ filters, 0)
      end == FindFirst(value, Char \ {"7"}, IF begin = npos THEN 0 ELSE begin)
  IN IF begin = npos THEN << >>
     ELSE Substring(value, begin, IF end = npos THEN Len(value) ELSE end - begin)

ReadString(key, value) == IF key \in DOMAIN m_Configs THEN m_Configs[key] ELSE value

\* The values an int may get: when no digit is found it is set to 0 or left alone,
\* depending on the library.
ReadInteger(key, value) ==
  IF key \notin DOMAIN m_Configs THEN {value}
  ELSE IF Digits(m_Configs[key]) = << >> THEN {value, <<"0">>}
  ELSE {Digits(m_Configs[key])}

\* The constructor of Config ignores whether a key was found.
Config ==
  /\ pc = "ParseLine" /\ lineVec = << >>
  /\ m_IP' = ReadString(IP, m_IP)
  /\ m_Port' \in ReadInteger(Port, m_Port)
  /\ pc' = "configured"
  /\ UNCHANGED <<file, lineVec, m_Configs>>

ConfigNext == GetLine \/ ParseLine \/ Config

ConfigSpec == ConfigInit /\ [][ConfigNext]_config
-----------------------------------------------------------------------------
(* Properties: what a file says to its reader *)

Occurs(c, s) == \E i \in 1 .. Len(s) : s[i] = c

Trim(s) ==
  LET kept == {i \in 1 .. Len(s) : s[i] # "blank"}
  IN IF kept = {} THEN << >> ELSE SubSeq(s, Min(kept), Max(kept))

Silent(line) == Occurs("hash", line) \/ ~Occurs("sign", line)
Sign(line) == Min({i \in 1 .. Len(line) : line[i] = "sign"})
Left(line) == Trim(SubSeq(line, 1, Sign(line) - 1))
Rest(line) == SubSeq(line, Sign(line) + 1, Len(line))
Right(line) == Trim(Rest(line))
Quoted(s) == Len(s) > 1 /\ s[1] = "q" /\ s[Len(s)] = "q"
Said(line) ==
  IF Quoted(Right(line)) THEN SubSeq(Right(line), 2, Len(Right(line)) - 1) ELSE Right(line)

\* The form of the lines of configure/Config.cfg: a comment, or a key, a sign, and
\* a string in quotation marks or a blank and an integer.
Documented(line) ==
  \/ Silent(line)
  \/ /\ Left(line) # << >> /\ Right(line) # << >>
     /\ Quoted(Right(line)) \/ (~Occurs("q", Rest(line)) /\ Rest(line)[1] = "blank")

\* The lines before the first one that is too long, and the first of them that
\* gives the key a value.
Counting == {n \in 1 .. Len(file) : \A m \in 1 .. n : Len(file[m]) < LINE_SIZE}
Lines(key) == {n \in Counting : ~Silent(file[n]) /\ Left(file[n]) = key}
Value(key) == Said(file[Min(Lines(key))])

\* A file whose lines have the documented form is read as it is written, with
\* blanks anywhere around keys and values, comments and repeated keys: the
\* constructor of Config gets the first value of each key, and nothing else.
\* Lines after one that is too long are not read.
SettingsAsWritten ==
  pc = "configured" /\ (\A n \in Counting : Documented(file[n])) =>
    /\ m_IP = IF Lines(IP) = {} THEN << >> ELSE Value(IP)
    /\ IF Lines(Port) = {} THEN m_Port = UNINIT
       ELSE Digits(Value(Port)) # << >> => m_Port = Digits(Value(Port))

\* ParseLine ends the process only for a line with a sign and, from the second
\* character after it on, no value: a missing value, or one character
\* without the blank.  No line of the documented form does.
TerminatedByMissingValue ==
  pc = "terminated" => \E n \in Counting :
    /\ ~Documented(file[n])
    /\ Trim(SubSeq(Rest(file[n]), 2, Len(Rest(file[n])))) = << >>
=============================================================================
