---------------------------- MODULE TelnetLine -----------------------------
(***************************************************************************)
(* NovaTelnetClient::receiveText: lines out of a stream that arrives in    *)
(* pieces.  All chat, game and telnet programs read their peers with it.   *)
(*                                                                         *)
(* A call is memmove, a loop that looks for the end of a line and receives *)
(* until it finds one, and a last pass that cuts the line off the buffer.  *)
(* The peer writes whole lines, ended by CR LF (sendText, telnet) or LF;   *)
(* the network delivers them in pieces of any size.                        *)
(***************************************************************************)
EXTENDS Integers, SequencesExt

CONSTANTS
  MAX_TELNET_BUFFER,  \* the size of the buffer: 512
  Texts,              \* the texts a peer may write, sequences of characters
  MaxLines,           \* the bound of the model on the lines it writes
  CR, LF, NUL,        \* the characters that mean something
  Timeouts            \* the timeouts callers may give, in tenths of a second

ASSUME TelnetAssumption ==
  /\ MAX_TELNET_BUFFER \in Nat \ {0}
  /\ MaxLines \in Nat
  /\ CR # LF /\ NUL \notin {CR, LF}
  /\ \A t \in Texts : t \in Seq(ToSet(t)) /\ {CR, LF, NUL} \cap ToSet(t) = {}
  /\ Timeouts \subseteq Int

VARIABLES
  current,  \* the first characters of the buffer, up to at + len
  at,       \* where in the buffer the next line starts
  len,      \* how many characters from there on are yet to be read
  timeout,  \* the timeout of the running or the last call
  pc,       \* where the call is; "app" between calls
  result,   \* what the last call returned: a text, NULL or nothing yet
  wire,     \* what the peer wrote and nobody received
  closed,   \* the peer closed the connection
  told,     \* how many lines it wrote
  pending   \* the lines it wrote and no call returned

line == <<current, at, len>>
peer == <<wire, closed, told>>
vars == <<line, timeout, pc, result, peer, pending>>

Char == (UNION {ToSet(t) : t \in Texts}) \cup {CR, LF, NUL}
Ends == {<<CR, LF>>, <<LF>>}
Null == [kind |-> "null"]
Nothing == [kind |-> "nothing"]
Text(t) == [kind |-> "text", text |-> t]

(* The types, and that neither memmove nor receive leaves the buffer: the  *)
(* loop writes behind the first len characters, wherever `at' was.         *)
TypeOK ==
  /\ current \in Seq(Char)
  /\ at \in 0 .. MAX_TELNET_BUFFER
  /\ len \in 0 .. MAX_TELNET_BUFFER
  /\ Len(current) = at + len
  /\ at + len <= MAX_TELNET_BUFFER
  /\ pc # "app" => at = 0
  /\ timeout \in Timeouts
  /\ pc \in {"app", "scan", "receive", "cut"}
  /\ result \in {Null, Nothing} \/ result.kind = "text"
  /\ wire \in Seq(Char)
  /\ closed \in BOOLEAN
  /\ told \in 0 .. MaxLines
  /\ pending \in Seq(Texts)

Init ==
  /\ current = <<>>
  /\ at = 0
  /\ len = 0
  /\ timeout \in Timeouts
  /\ pc = "app"
  /\ result = Nothing
  /\ wire = <<>>
  /\ closed = FALSE
  /\ told = 0
  /\ pending = <<>>

isEnd(ch) == ch \in {CR, LF}
hasEnd(s) == \E k \in 1 .. Len(s) : isEnd(s[k])

(* The text a C program sees in a buffer. *)
cString(s) == SubSeq(s, 1, IF NUL \in ToSet(s) THEN SelectInSeq(s, LAMBDA ch : ch = NUL) - 1 ELSE Len(s))

---------------------------------------------------------------------------

(* receiveText is called; memmove brings what is left to the front.        *)
Call ==
  /\ pc = "app"
  /\ pc' = "scan"
  /\ timeout' \in Timeouts
  /\ current' = SubSeq(current, at + 1, at + len)
  /\ at' = 0
  /\ result' = Nothing
  /\ UNCHANGED <<len, peer, pending>>

(* The loop leaves with the first CR or LF, and else receives.             *)
Scan ==
  /\ pc = "scan"
  /\ pc' = IF hasEnd(current) THEN "cut" ELSE "receive"
  /\ UNCHANGED <<line, timeout, result, peer, pending>>

(* Mutant: the loop ends with the first piece. *)
Receive_Once ==
  /\ pc = "receive"
  /\ \E k \in 1 .. Len(wire) :
       /\ k <= MAX_TELNET_BUFFER - len
       /\ current' = current \o SubSeq(wire, 1, k)
       /\ len' = len + k
       /\ wire' = SubSeq(wire, k + 1, Len(wire))
  /\ pc' = "cut"
  /\ UNCHANGED <<at, timeout, result, closed, told, pending>>

(* receive brings a piece of what is on the wire, as much as fits.         *)
Receive ==
  /\ pc = "receive"
  /\ \E k \in 1 .. Len(wire) :
       /\ k <= MAX_TELNET_BUFFER - len
       /\ current' = current \o SubSeq(wire, 1, k)
       /\ len' = len + k
       /\ wire' = SubSeq(wire, k + 1, Len(wire))
  /\ pc' = "scan"
  /\ UNCHANGED <<at, timeout, result, closed, told, pending>>

(* receive returns 0: the peer is gone, or the buffer is full and nothing  *)
(* was asked for.                                                          *)
ReceiveNothing ==
  /\ pc = "receive"
  /\ \/ closed /\ wire = <<>>
     \/ len = MAX_TELNET_BUFFER
  /\ pc' = "cut"
  /\ UNCHANGED <<line, timeout, result, peer, pending>>

(* NovaClient::receive waits for ever when the timeout is at most -0.5.    *)
forever(t) == t <= -5

(* Mutant: a call that gives up forgets the part of a line it has. *)
ReceiveFails_Drop ==
  /\ pc = "receive"
  /\ ~forever(timeout) \/ (closed /\ wire = <<>>)
  /\ pc' = "app"
  /\ result' = Null
  /\ current' = <<>>
  /\ len' = 0
  /\ UNCHANGED <<at, timeout, peer, pending>>

(* receive fails: the time is up, whatever is on the way or may fit, or    *)
(* the connection was reset.  receiveText returns NULL and keeps what it   *)
(* has of a line.                                                          *)
ReceiveFails ==
  /\ pc = "receive"
  /\ ~forever(timeout) \/ (closed /\ wire = <<>>)
  /\ pc' = "app"
  /\ result' = Null
  /\ UNCHANGED <<line, timeout, peer, pending>>

(* The buffer after the last pass up to position n. *)
ended(s, n) == [k \in 1 .. Len(s) |-> IF k <= n /\ isEnd(s[k]) THEN NUL ELSE s[k]]

(* Mutant: what follows a line in the buffer is dropped. *)
Cut_Drop ==
  /\ pc = "cut"
  /\ pc' = "app"
  /\ IF LF \in ToSet(current)
     THEN LET i == SelectInSeq(current, LAMBDA ch : ch = LF)
          IN  /\ current' = <<>>
              /\ len' = 0
              /\ at' = 0
              /\ result' = Text(cString(ended(current, i)))
              /\ pending' = IF pending = <<>> THEN <<>> ELSE Tail(pending)
     ELSE /\ current' = ended(current, len)
          /\ result' = Null
          /\ UNCHANGED <<at, len, pending>>
  /\ UNCHANGED <<timeout, peer>>

(* The last pass: every CR up to the first LF, and that LF, become NUL.    *)
(* The text before is returned; without an LF, NULL is.                    *)
Cut ==
  /\ pc = "cut"
  /\ pc' = "app"
  /\ IF LF \in ToSet(current)
     THEN LET i == SelectInSeq(current, LAMBDA ch : ch = LF)
          IN  /\ current' = IF len > i THEN ended(current, i) ELSE <<>>
              /\ len' = len - i
              /\ at' = IF len > i THEN i ELSE 0
              /\ result' = Text(cString(ended(current, i)))
              /\ pending' = IF pending = <<>> THEN <<>> ELSE Tail(pending)
     ELSE /\ current' = ended(current, len)
          /\ result' = Null
          /\ UNCHANGED <<at, len, pending>>
  /\ UNCHANGED <<timeout, peer>>

---------------------------------------------------------------------------

(* The peer writes a line. *)
Tell(t, end) ==
  /\ ~closed
  /\ told < MaxLines
  /\ told' = told + 1
  /\ wire' = wire \o t \o end
  /\ pending' = Append(pending, t)
  /\ UNCHANGED <<line, timeout, pc, result, closed>>

Close ==
  /\ ~closed
  /\ closed' = TRUE
  /\ UNCHANGED <<line, timeout, pc, result, wire, told, pending>>

ReceiveText == Call \/ Scan \/ Receive \/ ReceiveNothing \/ ReceiveFails \/ Cut

Next == ReceiveText \/ Close \/ \E t \in Texts : \E end \in Ends : Tell(t, end)

Spec == Init /\ [][Next]_vars

(* The caller calls again, whatever it got: the clients of telnet_client   *)
(* and game_client do.  What was written arrives, and is there for one of  *)
(* the calls however often they give up before.                            *)
FairSpec == Spec /\ WF_vars(ReceiveText) /\ SF_vars(Receive)

---------------------------------------------------------------------------
(* Lines are returned whole, in order, none twice and none missing,        *)
(* however they were cut up on the way, with two calls' lines in one       *)
(* piece, and with calls that gave up in the middle of a line.             *)
LinesInOrder ==
  [][result' # result /\ result'.kind = "text" =>
       pending # <<>> /\ result' = Text(Head(pending))]_vars

(* The servers take NULL for the end of the connection.  It comes without  *)
(* one in three cases only: the call had a timeout, the line fills the     *)
(* buffer without end, or the pieces on the way were cut between CR and LF *)
(* (the CR is NUL by then).                                                *)
NullIsExplained ==
  [][result' # result /\ result' = Null =>
       \/ closed /\ wire = <<>>
       \/ ~forever(timeout)
       \/ len = MAX_TELNET_BUFFER
       \/ Last(current') = NUL]_vars

(* A caller that calls again hears everything that fits the buffer: what a *)
(* call leaves in it when its time is up, or when it returns NULL with the *)
(* CR alone, is finished by a later one.  A line that does not fit is      *)
(* never heard, nor is anything after it.                                  *)
EverythingIsHeard ==
  [](\A t \in ToSet(pending) : Len(t) + 2 <= MAX_TELNET_BUFFER) =>
    (pending # <<>> ~> pending = <<>>)

(* NovaClient.h on the timeout: "how long to wait (in seconds - negative   *)
(* means forever)".  Without a reset, a call fails when its time is up.    *)
NegativeMeansForever ==
  [][pc = "receive" /\ pc' = "app" /\ ~closed => timeout >= 0]_vars

============================================================================
