------------------------- MODULE MotionClientProofs -------------------------
(***************************************************************************)
(* Proofs about MotionClient, for any gauges, moves and speeds, any number *)
(* of connections, commands and fire clicks, and every fault: the poll is  *)
(* neither lost nor doubled, the fire button tells the truth, a move is    *)
(* reported sent only when it ran, and a gauge shows its own answer.       *)
(***************************************************************************)
EXTENDS MotionClient, SequenceTheorems, FiniteSetTheorems, TLAPS

Gauge == Range(Gauges)

(* The three parts of a reply. *)
Start(g) == <<g, "start">>
Header(g) == <<g, "head">>
Trailer(g) == <<g, "tail">>

(* The callback that runs; there is none once the window is closed. *)
Callback ==
    /\ DOMAIN tk = {"at", "k", "sent"} /\ tk.at \in {"idle", "connect", "poll", "cmd"}
    /\ tk.at = "poll" => tk.k \in 1..Len(Gauges)
    /\ closed => tk.at = "idle"

(* The one poll to come is the one _polling_job names: there is none while *)
(* a poll runs or the window is disconnected or closed, and there is one   *)
(* while a command runs.                                                   *)
OnePoll ==
    /\ scheduled \subseteq {job}
    /\ tk.at = "poll" \/ ~connected \/ closed => scheduled = {}
    /\ connected /\ tk.at \in {"idle", "cmd"} /\ ~closed => scheduled = {job}
    /\ tk.at \in {"poll", "cmd"} => connected
    /\ tk.at = "connect" => ~connected

(* A failed send is on its way to the button: its thread has yet to queue  *)
(* the stop, or the stop is queued.                                        *)
Told == failing > 0 \/ stops > 0

(* The fire client's flag and its button differ only in that the flag was  *)
(* cleared by a failed send that is on its way to the button.              *)
Button ==
    /\ sending \in BOOLEAN /\ failing \in Nat /\ stops \in Nat
    /\ closed => text = "START"
    /\ IF sending THEN text = "STOP" ELSE text = "START" \/ Told

(* What a request that was given up can leave in the buffer. *)
Left(b) ==
    \/ b = <<>>
    \/ \E x \in Gauge : \/ b = <<Start(x), Header(x)>>
                        \/ b = <<Header(x)>>
                        \/ b = <<Header(x), Trailer(x)>>

(* A connection that was given up is closed, so the open one, if any,      *)
(* holds nothing but what the callback that runs asked for.                *)
Quiet == Left(buf) /\ wire = <<>> /\ (sock # 0 => pending[sock] = {})

Asked == [op |-> "get", arg |-> Gauges[tk.k], of |-> 0, step |-> 0]

(* What the buffer can hold of the reply that is still to be read. *)
Meets(g, b, w) ==
    \/ Left(b) /\ w \in {<<>>, Reply(g)}
    \/ b = <<>> /\ w = <<Header(g), Trailer(g)>>
    \/ /\ b \in {<<>>, <<Header(g)>>, <<Start(g), Header(g)>>}
       /\ w = <<Trailer(g)>>

Answering ==
    /\ Meets(Gauges[tk.k], buf, wire)
    /\ pending[sock] = {} \/ (pending[sock] = {Asked} /\ wire = <<>>)

Acking ==
    /\ Left(buf)
    /\ \/ wire = <<>> /\ \A cmd \in pending[sock] : cmd.op # "get"
       \/ wire = Ack /\ pending[sock] = {}

Exchange ==
    /\ sock \in Nat /\ conns \in Nat /\ sock <= conns /\ conns <= MaxConns
    /\ pending = [c \in Conns |-> pending[c]]
    /\ \A c \in Conns : \A cmd, e \in pending[c] : cmd = e
    /\ tk.at = "idle" \/ ~tk.sent => Quiet
    /\ tk.sent => sock # 0
    /\ tk.at = "connect" => tk.sent
    /\ tk.at = "poll" /\ tk.sent => Answering
    /\ tk.at \in {"connect", "cmd"} /\ tk.sent => Acking

(* A step of the last command that the server has yet to run. *)
Ours(cmd) == cmd.of = commands /\ commands # 0

(* The steps run are 1, 2, 3...: at most one connection holds a step of    *)
(* the last command, the next to run.                                      *)
Progress ==
    /\ commands \in Nat /\ Len(todo) \in Nat
    /\ ran \in Seq(Nat) /\ \A i \in 1..Len(ran) : ran[i] = i
    /\ \A c \in Conns : \A cmd \in pending[c] :
        /\ cmd.of \in 0..commands
        /\ Ours(cmd) => /\ cmd.step = Len(ran) + 1 /\ said # "success"
                        /\ \A d \in Conns : \A e \in pending[d] : Ours(e) => d = c
    /\ said = "success" => Len(ran) = Len(todo)
    /\ tk.at = "cmd" =>
        /\ commands # 0 /\ said = "none" /\ tk.k \in 1..Len(todo)
        /\ \A i \in 1..Len(todo) : todo[i].op # "get"
        /\ IF tk.sent /\ wire # <<>> THEN Len(ran) = tk.k ELSE Len(ran) = tk.k - 1
        /\ \A c \in Conns : \A cmd \in pending[c] : Ours(cmd) => tk.sent /\ c = sock
        /\ tk.sent => \A cmd \in pending[sock] : Ours(cmd)

Gauged == DOMAIN shown = Gauge /\ ShownIsOurs

IInv == Callback /\ OnePoll /\ Button /\ Exchange /\ Progress /\ Gauged
-----------------------------------------------------------------------------
Byte == Gauge \X {"start", "head", "tail"}

LEMMA Parts ==
    ASSUME NEW g \in Gauge
    PROVE  /\ Start(g) \in Byte /\ Header(g) \in Byte /\ Trailer(g) \in Byte
           /\ Start(g)[1] = g /\ Start(g)[2] = "start" /\ Header(g)[2] = "head" /\ Trailer(g)[2] = "tail"
           /\ Trailer(g) = <<g, "tail">> /\ Reply(g) = <<Start(g), Header(g), Trailer(g)>>
BY DEF Byte, Start, Header, Trailer, Reply

StartsAt(b, i) == b[i][2] = "start" /\ b[i + 1][2] = "head"

(* A buffer without a start pair is discarded. *)
LEMMA ParseNothing ==
    ASSUME NEW b \in Seq(Byte), \A i \in 1..Len(b) - 1 : ~StartsAt(b, i)
    PROVE  Parse(b).packet = {} /\ Parse(b).rest = <<>>
<1>1. {i \in 1..Len(b) - 1 : b[i][2] = "start" /\ b[i + 1][2] = "head"} = {}
  BY DEF StartsAt
<1> QED BY <1>1 DEF Parse

(* Otherwise its first start pair begins the packet. *)
LEMMA ParsePacket ==
    ASSUME NEW b \in Seq(Byte), NEW m \in 1..Len(b) - 1, StartsAt(b, m),
           \A i \in 1..m - 1 : ~StartsAt(b, i)
    PROVE  /\ m + 2 > Len(b) => Parse(b).packet = {} /\ Parse(b).rest = SubSeq(b, m, Len(b))
           /\ m + 2 <= Len(b) =>
                /\ b[m + 2] = <<b[m][1], "tail">> => Parse(b).packet = {b[m][1]}
                /\ b[m + 2] # <<b[m][1], "tail">> => Parse(b).packet = {}
                /\ Parse(b).rest = SubSeq(b, m + 3, Len(b))
<1> DEFINE starts == {i \in 1..Len(b) - 1 : b[i][2] = "start" /\ b[i + 1][2] = "head"}
<1>1. m \in starts /\ \A i \in starts : m <= i BY DEF StartsAt
<1>2. starts # {} /\ Min(starts) = m BY <1>1 DEF Min
<1> DEFINE c == SubSeq(b, m, Len(b))
<1>3. Parse(b) = [packet |-> IF Len(c) >= 3 /\ c[3] = <<c[1][1], "tail">> THEN {c[1][1]} ELSE {},
                  rest   |-> IF Len(c) >= 3 THEN SubSeq(c, 4, Len(c)) ELSE c]
  BY <1>2 DEF Parse
<1>4. Len(c) = Len(b) - m + 1 /\ \A i \in 1..Len(c) : c[i] = b[m + i - 1] /\ c \in Seq(Byte) OBVIOUS
<1>5. c[1] = b[m] /\ (Len(c) >= 3 => c[3] = b[m + 2]) BY <1>4
<1>6. Len(c) >= 3 => SubSeq(c, 4, Len(c)) = SubSeq(b, m + 3, Len(b))
  BY <1>4
<1> QED BY <1>3, <1>4, <1>5, <1>6

(* Short sequences are what they hold. *)
LEMMA Short ==
    ASSUME NEW s \in Seq(Byte)
    PROVE  /\ Len(s) = 0 => s = <<>>
           /\ Len(s) = 1 => s = <<s[1]>>
           /\ Len(s) = 2 => s = <<s[1], s[2]>>
<1>1. Len(s) = 0 => s = <<>> OBVIOUS
<1>2. Len(s) = 1 => s = <<s[1]>> OBVIOUS
<1>3. Len(s) = 2 => s = <<s[1], s[2]>> OBVIOUS
<1> QED BY <1>1, <1>2, <1>3

(* What is read is appended to the buffer... *)
Joins(B, b, w, n) ==
    /\ B \in Seq(Byte) /\ Len(B) = Len(b) + n
    /\ \A i \in 1..Len(b) : B[i] = b[i]
    /\ \A i \in Len(b) + 1..Len(b) + n : B[i] = w[i - Len(b)]

LEMMA Joined ==
    ASSUME NEW b \in Seq(Byte), NEW w \in Seq(Byte), NEW n \in 1..Len(w)
    PROVE  Joins(b \o SubSeq(w, 1, n), b, w, n)
BY DEF Joins

(* ...and what is not stays. *)
LEMMA Remains ==
    ASSUME NEW b \in Seq(Byte), NEW m \in 1..Len(b) + 1, NEW v, v = SubSeq(b, m, Len(b))
    PROVE  v \in Seq(Byte) /\ Len(v) = Len(b) - m + 1 /\ \A i \in 1..Len(v) : v[i] = b[m + i - 1]
OBVIOUS

(* A whole packet at the end of the buffer is taken out of it... *)
LEMMA ParseWhole ==
    ASSUME NEW b \in Seq(Byte), NEW m \in Nat, m >= 1, Len(b) = m + 2, StartsAt(b, m),
           \A i \in 1..m - 1 : ~StartsAt(b, i), b[m + 2] = <<b[m][1], "tail">>
    PROVE  Parse(b).packet = {b[m][1]} /\ Parse(b).rest = <<>>
<1>1. m \in 1..Len(b) - 1 OBVIOUS
<1>2. Parse(b).packet = {b[m][1]} /\ Parse(b).rest = SubSeq(b, m + 3, Len(b))
  BY <1>1, ParsePacket
<1> QED BY <1>2

(* ...one without its tail stays... *)
LEMMA ParseCut ==
    ASSUME NEW b \in Seq(Byte), NEW m \in Nat, m >= 1, Len(b) = m + 1, StartsAt(b, m),
           \A i \in 1..m - 1 : ~StartsAt(b, i)
    PROVE  Parse(b).packet = {} /\ Parse(b).rest = <<b[m], b[m + 1]>>
<1>1. m \in 1..Len(b) - 1 OBVIOUS
<1> PICK r : r = SubSeq(b, m, Len(b)) OBVIOUS
<1>2. Parse(b).packet = {} /\ Parse(b).rest = r BY <1>1, ParsePacket
<1>3. r \in Seq(Byte) /\ Len(r) = 2 /\ r[1] = b[m] /\ r[2] = b[m + 1] OBVIOUS
<1>4. r = <<b[m], b[m + 1]>> BY <1>3, Short
<1> QED BY <1>2, <1>4

(* ...and one with another's start for a tail is dropped. *)
LEMMA ParseBroken ==
    ASSUME NEW b \in Seq(Byte), Len(b) >= 3, StartsAt(b, 1), b[3] # <<b[1][1], "tail">>
    PROVE  /\ Parse(b).packet = {}
           /\ Len(b) = 3 => Parse(b).rest = <<>>
           /\ Len(b) = 4 => Parse(b).rest = <<b[4]>>
           /\ Len(b) = 5 => Parse(b).rest = <<b[4], b[5]>>
<1>1. 1 \in 1..Len(b) - 1 /\ \A i \in 1..1 - 1 : ~StartsAt(b, i) OBVIOUS
<1> PICK r : r = SubSeq(b, 4, Len(b)) OBVIOUS
<1>2. Parse(b).packet = {} /\ Parse(b).rest = r
  <2>1. 1 + 2 <= Len(b) /\ b[1 + 2] = b[3] /\ 1 + 3 = 4 OBVIOUS
  <2> QED BY <1>1, <2>1, ParsePacket
<1>3. r \in Seq(Byte) /\ Len(r) = Len(b) - 3
  <2>1. 4 \in 1..Len(b) + 1 /\ Len(b) - 4 + 1 = Len(b) - 3 OBVIOUS
  <2> QED BY <2>1, Remains
<1>4. Len(b) = 3 => r = <<>> BY <1>3
<1>5. Len(b) = 4 => r = <<b[4]>>
  <2>1. Len(b) = 4 => Len(r) = 1 /\ r[1] = b[4] OBVIOUS
  <2> QED BY <1>3, <2>1, Short
<1>6. Len(b) = 5 => r = <<b[4], b[5]>>
  <2>1. Len(b) = 5 => Len(r) = 2 /\ r[1] = b[4] /\ r[2] = b[5] OBVIOUS
  <2> QED BY <1>3, <2>1, Short
<1> QED BY <1>2, <1>4, <1>5, <1>6

(* What is left of a reply once n of its bytes were read. *)
LEMMA ReplyRemains ==
    ASSUME NEW g \in Gauge
    PROVE  /\ SubSeq(<<Trailer(g)>>, 2, 1) = <<>>
           /\ SubSeq(<<Header(g), Trailer(g)>>, 2, 2) = <<Trailer(g)>>
           /\ SubSeq(<<Header(g), Trailer(g)>>, 3, 2) = <<>>
           /\ SubSeq(<<Start(g), Header(g), Trailer(g)>>, 2, 3) = <<Header(g), Trailer(g)>>
           /\ SubSeq(<<Start(g), Header(g), Trailer(g)>>, 3, 3) = <<Trailer(g)>>
           /\ SubSeq(<<Start(g), Header(g), Trailer(g)>>, 4, 3) = <<>>
<1>0. Start(g) \in Byte /\ Header(g) \in Byte /\ Trailer(g) \in Byte BY Parts
<1>1. SubSeq(<<Trailer(g)>>, 2, 1) = <<>> BY <1>0
<1>2. SubSeq(<<Header(g), Trailer(g)>>, 3, 2) = <<>> BY <1>0
<1>3. SubSeq(<<Start(g), Header(g), Trailer(g)>>, 4, 3) = <<>> BY <1>0
<1>4. SubSeq(<<Header(g), Trailer(g)>>, 2, 2) = <<Trailer(g)>>
  <2> PICK w : w = <<Header(g), Trailer(g)>> OBVIOUS
  <2> PICK v : v = SubSeq(w, 2, 2) OBVIOUS
  <2>1. w \in Seq(Byte) /\ Len(w) = 2 /\ w[2] = Trailer(g) BY <1>0
  <2>2. v \in Seq(Byte) /\ Len(v) = 1 /\ v[1] = w[2] BY <2>1
  <2> QED BY <2>1, <2>2, Short
<1>5. /\ SubSeq(<<Start(g), Header(g), Trailer(g)>>, 2, 3) = <<Header(g), Trailer(g)>>
      /\ SubSeq(<<Start(g), Header(g), Trailer(g)>>, 3, 3) = <<Trailer(g)>>
  <2> PICK w : w = <<Start(g), Header(g), Trailer(g)>> OBVIOUS
  <2> PICK v : v = SubSeq(w, 2, 3) OBVIOUS
  <2> PICK u : u = SubSeq(w, 3, 3) OBVIOUS
  <2>1. w \in Seq(Byte) /\ Len(w) = 3 /\ w[2] = Header(g) /\ w[3] = Trailer(g) BY <1>0
  <2>2. v \in Seq(Byte) /\ Len(v) = 2 /\ v[1] = w[2] /\ v[2] = w[3] BY <2>1
  <2>3. u \in Seq(Byte) /\ Len(u) = 1 /\ u[1] = w[3] BY <2>1
  <2>4. v = <<Header(g), Trailer(g)>> BY <2>1, <2>2, Short
  <2>5. u = <<Trailer(g)>> BY <2>1, <2>3, Short
  <2> QED BY <2>4, <2>5
<1> QED BY <1>1, <1>2, <1>3, <1>4, <1>5

(* No byte that begins a packet. *)
NoStart(s) == s \in Seq(Byte) /\ \A i \in 1..Len(s) : s[i][2] # "start"

LEMMA NoStarts ==
    /\ NoStart(<<>>)
    /\ \A x \in Gauge : NoStart(<<Header(x)>>) /\ NoStart(<<Header(x), Trailer(x)>>)
                         /\ NoStart(<<Trailer(x)>>)
<1>1. NoStart(<<>>) BY DEF NoStart
<1>2. ASSUME NEW x \in Gauge
      PROVE  NoStart(<<Header(x)>>) /\ NoStart(<<Header(x), Trailer(x)>>) /\ NoStart(<<Trailer(x)>>)
  <2>1. /\ Header(x) \in Byte /\ Trailer(x) \in Byte
        /\ Header(x)[2] # "start" /\ Trailer(x)[2] # "start"
    BY Parts
  <2>2. NoStart(<<Header(x)>>) BY <2>1 DEF NoStart
  <2>3. NoStart(<<Trailer(x)>>) BY <2>1 DEF NoStart
  <2>4. NoStart(<<Header(x), Trailer(x)>>)
    <3> PICK s : s = <<Header(x), Trailer(x)>> OBVIOUS
    <3>1. s \in Seq(Byte) /\ Len(s) = 2 /\ s[1] = Header(x) /\ s[2] = Trailer(x) BY <2>1
    <3>2. \A i \in 1..Len(s) : i = 1 \/ i = 2 BY <3>1
    <3> QED BY <2>1, <3>1, <3>2 DEF NoStart
  <2> QED BY <2>2, <2>3, <2>4
<1> QED BY <1>1, <1>2

(* Without a start in the buffer or in what is read, nothing is found. *)
LEMMA ReadsOn ==
    ASSUME NEW b, NEW w, NoStart(b), NoStart(w), NEW n \in 1..Len(w), NEW B, Joins(B, b, w, n)
    PROVE  Parse(B).packet = {} /\ Parse(B).rest = <<>>
<1>0. Len(b) \in Nat /\ Len(w) \in Nat /\ n \in Nat /\ n <= Len(w) BY DEF NoStart
<1>1. ASSUME NEW i \in 1..Len(B) PROVE B[i][2] # "start"
  <2>1. CASE i \in 1..Len(b) BY <2>1 DEF NoStart, Joins
  <2>2. CASE i \in Len(b) + 1..Len(b) + n
    <3>1. i - Len(b) \in 1..Len(w) BY <1>0, <2>2
    <3>2. B[i] = w[i - Len(b)] BY <2>2 DEF Joins
    <3> QED BY <3>1, <3>2 DEF NoStart
  <2>3. Len(B) = Len(b) + n BY DEF Joins
  <2>4. i \in 1..Len(b) \/ i \in Len(b) + 1..Len(b) + n BY <1>0, <2>3
  <2> QED BY <2>1, <2>2, <2>4
<1>2. B \in Seq(Byte) /\ Len(B) \in Nat BY DEF Joins
<1>3. \A i \in 1..Len(B) - 1 : ~StartsAt(B, i) BY <1>1, <1>2 DEF StartsAt
<1> QED BY <1>2, <1>3, ParseNothing

(* The bytes of a whole reply. *)
Whole(w, g) == w \in Seq(Byte) /\ Len(w) = 3 /\ w[1] = Start(g) /\ w[2] = Header(g) /\ w[3] = Trailer(g)

(* The first bytes of a reply, after a buffer with no start. *)
LEMMA ReadsFresh ==
    ASSUME NEW g \in Gauge, NEW b, NoStart(b), NEW n \in 1..3, NEW w, Whole(w, g),
           NEW B, Joins(B, b, w, n)
    PROVE  /\ n = 1 => Parse(B).packet = {} /\ Parse(B).rest = <<>>
           /\ n = 2 => Parse(B).packet = {} /\ Parse(B).rest = <<Start(g), Header(g)>>
           /\ n = 3 => Parse(B).packet = {g} /\ Parse(B).rest = <<>>
<1>0. /\ Start(g)[1] = g /\ Start(g)[2] = "start" /\ Header(g)[2] = "head"
      /\ Trailer(g) = <<g, "tail">>
  BY Parts
<1>1. Len(b) \in Nat /\ B \in Seq(Byte) /\ Len(B) \in Nat BY DEF NoStart, Joins
<1> PICK m : m = Len(b) + 1 OBVIOUS
<1>2. m \in Nat /\ m >= 1 /\ Len(B) = m + n - 1 BY <1>1 DEF Joins
<1>3. \A i \in 1..m - 1 : ~StartsAt(B, i) BY <1>1 DEF NoStart, Joins, StartsAt
<1>4. /\ B[m] = Start(g)
      /\ n >= 2 => B[m + 1] = Header(g)
      /\ n >= 3 => B[m + 2] = Trailer(g)
  <2>1. \A i \in m..m + n - 1 : B[i] = w[i - Len(b)] BY <1>1 DEF Joins
  <2>2. \A k \in 1..n : m + k - 1 \in m..m + n - 1 /\ (m + k - 1) - Len(b) = k BY <1>1, <1>2
  <2>3. \A k \in 1..n : B[m + k - 1] = w[k] BY <2>1, <2>2
  <2>4. B[m] = w[1] /\ (n >= 2 => B[m + 1] = w[2]) /\ (n >= 3 => B[m + 2] = w[3])
    <3>1. 1 \in 1..n /\ m + 1 - 1 = m BY <1>2
    <3>2. n >= 2 => 2 \in 1..n /\ m + 2 - 1 = m + 1 BY <1>2
    <3>3. n >= 3 => 3 \in 1..n /\ m + 3 - 1 = m + 2 BY <1>2
    <3> QED BY <2>3, <3>1, <3>2, <3>3
  <2> QED BY <2>4 DEF Whole
<1>5. CASE n = 1
  <2>1. Len(B) - 1 = m - 1 BY <1>2, <1>5
  <2>2. \A i \in 1..Len(B) - 1 : ~StartsAt(B, i) BY <1>3, <2>1
  <2>3. Parse(B).packet = {} /\ Parse(B).rest = <<>> BY <1>1, <2>2, ParseNothing
  <2> QED BY <1>5, <2>3
<1>6. CASE n = 2
  <2>1. Len(B) = m + 1 /\ StartsAt(B, m) BY <1>0, <1>2, <1>4, <1>6 DEF StartsAt
  <2>2. Parse(B).packet = {} /\ Parse(B).rest = <<B[m], B[m + 1]>>
    BY <1>1, <1>2, <1>3, <2>1, ParseCut
  <2> QED BY <1>4, <1>6, <2>2
<1>7. CASE n = 3
  <2>1. Len(B) = m + 2 /\ StartsAt(B, m) BY <1>0, <1>2, <1>4, <1>7 DEF StartsAt
  <2>2. B[m][1] = g /\ B[m + 2] = <<B[m][1], "tail">> BY <1>0, <1>4, <1>7
  <2>3. Parse(B).packet = {B[m][1]} /\ Parse(B).rest = <<>>
    BY <1>1, <1>2, <1>3, <2>1, <2>2, ParseWhole
  <2> QED BY <1>7, <2>2, <2>3
<1> QED BY <1>5, <1>6, <1>7

(* What a request that was given up before the tail came leaves. *)
Cut(b, x) == Len(b) = 2 /\ b[1] = Start(x) /\ b[2] = Header(x)

(* The first bytes of a reply, after what another left. *)
LEMMA ReadsAfter ==
    ASSUME NEW g \in Gauge, NEW x \in Gauge, NEW n \in 1..3, NEW w, Whole(w, g),
           NEW b, Cut(b, x), NEW B, Joins(B, b, w, n)
    PROVE  /\ Parse(B).packet = {}
           /\ n = 1 => Parse(B).rest = <<>>
           /\ n = 2 => Parse(B).rest = <<Header(g)>>
           /\ n = 3 => Parse(B).rest = <<Header(g), Trailer(g)>>
<1>0. Start(x)[2] = "start" /\ Header(x)[2] = "head" /\ Start(g)[2] = "start" BY Parts
<1>1. Len(b) = 2 /\ b[1] = Start(x) /\ b[2] = Header(x) BY DEF Cut
<1>2. B \in Seq(Byte) BY DEF Joins
<1>3. /\ Len(B) = 2 + n /\ B[1] = Start(x) /\ B[2] = Header(x) /\ B[3] = Start(g)
      /\ n >= 2 => B[4] = Header(g)
      /\ n >= 3 => B[5] = Trailer(g)
  BY <1>1 DEF Joins, Whole
<1>4. StartsAt(B, 1) BY <1>0, <1>3 DEF StartsAt
<1>5. B[3] # <<B[1][1], "tail">> BY <1>0, <1>3
<1>6. Len(B) >= 3 BY <1>3
<1>7. /\ Parse(B).packet = {}
      /\ Len(B) = 3 => Parse(B).rest = <<>>
      /\ Len(B) = 4 => Parse(B).rest = <<B[4]>>
      /\ Len(B) = 5 => Parse(B).rest = <<B[4], B[5]>>
  BY <1>2, <1>4, <1>5, <1>6, ParseBroken
<1>8. CASE n = 1 BY <1>3, <1>7, <1>8
<1>9. CASE n = 2 BY <1>3, <1>7, <1>9
<1>10. CASE n = 3 BY <1>3, <1>7, <1>10
<1> QED BY <1>8, <1>9, <1>10

(* The tail of a packet whose other parts wait in the buffer. *)
LEMMA ReadsTail ==
    ASSUME NEW g \in Gauge, NEW b, b = <<Start(g), Header(g)>>, NEW w, w = <<Trailer(g)>>,
           NEW B, Joins(B, b, w, 1)
    PROVE  Parse(B).packet = {g} /\ Parse(B).rest = <<>>
<1>0. /\ Start(g)[1] = g /\ Start(g)[2] = "start" /\ Header(g)[2] = "head"
      /\ Trailer(g) = <<g, "tail">>
  BY Parts
<1>1. Len(b) = 2 /\ b[1] = Start(g) /\ b[2] = Header(g) /\ w[1] = Trailer(g) OBVIOUS
<1>2. B \in Seq(Byte) /\ Len(B) = 3 /\ B[1] = Start(g) /\ B[2] = Header(g) /\ B[3] = Trailer(g)
  BY <1>1 DEF Joins
<1> PICK m : m = 1 OBVIOUS
<1>3. m \in Nat /\ m >= 1 /\ StartsAt(B, m) /\ B[m][1] = g /\ Len(B) = m + 2
  BY <1>0, <1>2 DEF StartsAt
<1>4. B[m + 2] = <<B[m][1], "tail">> /\ \A i \in 1..m - 1 : ~StartsAt(B, i)
  BY <1>0, <1>2, <1>3
<1>5. Parse(B).packet = {B[m][1]} /\ Parse(B).rest = <<>> BY Zenon, <1>2, <1>3, <1>4, ParseWhole
<1> QED BY <1>3, <1>5

(* Reading n bytes: the buffer they make, and the bytes still to come. *)
Feeds(b, w, n, B, v) == B = b \o SubSeq(w, 1, n) /\ v = SubSeq(w, n + 1, Len(w))

(* Reading a part of what is there leaves what Meets says, and a whole     *)
(* packet is the reply's own: the two parts that an earlier request left   *)
(* take a start byte away with them, so they never meet a tail.            *)
LEMMA Reads ==
    ASSUME NEW g \in Gauge, NEW b, NEW w, Meets(g, b, w), NEW n \in 1..Len(w),
           NEW B, NEW v, Feeds(b, w, n, B, v)
    PROVE  /\ Meets(g, Parse(B).rest, v)
           /\ Parse(B).packet = {} \/ (Parse(B).packet = {g} /\ v = <<>> /\ Left(Parse(B).rest))
<1> B = b \o SubSeq(w, 1, n) /\ v = SubSeq(w, n + 1, Len(w)) BY DEF Feeds
<1>0. /\ Start(g) \in Byte /\ Header(g) \in Byte /\ Trailer(g) \in Byte
      /\ Reply(g) = <<Start(g), Header(g), Trailer(g)>>
  BY Parts
<1>1. NoStart(b) \/ \E x \in Gauge : b = <<Start(x), Header(x)>>
  BY NoStarts DEF Meets, Left
<1>2. ASSUME NEW x \in Gauge PROVE <<Start(x), Header(x)>> \in Seq(Byte)
  BY Parts
<1>3. w \in Seq(Byte) => Joins(B, b, w, n)
  <2>1. b \in Seq(Byte) BY <1>1, <1>2 DEF NoStart
  <2> QED BY Zenon, <2>1, Joined
<1>4. CASE w = <<Trailer(g)>>
  <2>1. w \in Seq(Byte) /\ Len(w) = 1 BY <1>0, <1>4
  <2>0. Joins(B, b, w, n) BY <1>3, <2>1
  <2>2. n = 1 BY <2>1
  <2>3. v = <<>> BY <1>4, <2>1, <2>2, ReplyRemains
  <2>4. CASE NoStart(b)
    <3>1. NoStart(w) BY <1>4, NoStarts
    <3>2. Parse(B).packet = {} /\ Parse(B).rest = <<>> BY Zenon, <2>0, <2>4, <3>1, ReadsOn
    <3> QED BY <2>3, <3>2 DEF Meets, Left
  <2>5. CASE b = <<Start(g), Header(g)>>
    <3>1. Parse(B).packet = {g} /\ Parse(B).rest = <<>> BY <1>4, <2>0, <2>2, <2>5, ReadsTail
    <3> QED BY <2>3, <3>1 DEF Meets, Left
  <2>6. b \in {<<>>, <<Header(g)>>, <<Start(g), Header(g)>>} BY <1>0, <1>4 DEF Meets
  <2> QED BY <2>4, <2>5, <2>6, NoStarts
<1>5. CASE w = <<Header(g), Trailer(g)>>
  <2>1. w \in Seq(Byte) /\ Len(w) = 2 BY <1>0, <1>5
  <2>0. Joins(B, b, w, n) BY <1>3, <2>1
  <2>2. n \in {1, 2} BY <2>1
  <2>3. NoStart(w) BY <1>5, NoStarts
  <2>4. NoStart(b)
    <3>1. b = <<>> BY <1>0, <1>5 DEF Meets
    <3> QED BY <3>1, NoStarts
  <2>5. Parse(B).packet = {} /\ Parse(B).rest = <<>> BY Zenon, <2>0, <2>3, <2>4, ReadsOn
  <2>6. v = <<>> \/ v = <<Trailer(g)>>
    <3>1. CASE n = 1
      <4>1. v = SubSeq(w, 2, 2) BY <2>1, <3>1
      <4> QED BY <1>5, <4>1, ReplyRemains
    <3>2. CASE n = 2
      <4>1. v = SubSeq(w, 3, 2) BY <2>1, <3>2
      <4> QED BY <1>5, <4>1, ReplyRemains
    <3> QED BY <2>2, <3>1, <3>2
  <2> QED BY <2>5, <2>6 DEF Meets, Left
<1>6. CASE w = <<Start(g), Header(g), Trailer(g)>>
  <2>1. Whole(w, g) BY <1>0, <1>6 DEF Whole
  <2>0. Joins(B, b, w, n) BY <1>3, <2>1 DEF Whole
  <2>2. n \in 1..3 BY <2>1 DEF Whole
  <2>3. /\ n = 1 => v = <<Header(g), Trailer(g)>>
        /\ n = 2 => v = <<Trailer(g)>>
        /\ n = 3 => v = <<>>
    <3>1. Len(w) = 3 BY <2>1 DEF Whole
    <3>2. CASE n = 1 BY <1>6, <3>1, <3>2, ReplyRemains
    <3>3. CASE n = 2
      <4>1. v = SubSeq(w, 3, 3) BY <3>1, <3>3
      <4> QED BY <1>6, <3>3, <4>1, ReplyRemains
    <3>4. CASE n = 3 BY <1>6, <3>1, <3>4, ReplyRemains
    <3> QED BY <3>2, <3>3, <3>4
  <2>4. n = 1 \/ n = 2 \/ n = 3 BY <2>2
  <2>5. CASE NoStart(b)
    <3>1. /\ n = 1 => Parse(B).packet = {} /\ Parse(B).rest = <<>>
          /\ n = 2 => Parse(B).packet = {} /\ Parse(B).rest = <<Start(g), Header(g)>>
          /\ n = 3 => Parse(B).packet = {g} /\ Parse(B).rest = <<>>
      BY <2>0, <2>1, <2>2, <2>5, ReadsFresh
    <3> QED BY <2>3, <2>4, <3>1 DEF Meets, Left
  <2>6. ASSUME NEW x \in Gauge, b = <<Start(x), Header(x)>>
        PROVE  Parse(B).packet = {} /\ Meets(g, Parse(B).rest, v)
    <3>0. Cut(b, x) BY <2>6 DEF Cut
    <3>1. /\ Parse(B).packet = {}
          /\ n = 1 => Parse(B).rest = <<>>
          /\ n = 2 => Parse(B).rest = <<Header(g)>>
          /\ n = 3 => Parse(B).rest = <<Header(g), Trailer(g)>>
      BY <2>0, <2>1, <2>2, <3>0, ReadsAfter
    <3> QED BY <2>3, <2>4, <3>1 DEF Meets, Left
  <2> QED BY <1>1, <2>5, <2>6
<1>7. w # <<>> OBVIOUS
<1> QED BY <1>0, <1>4, <1>5, <1>6, <1>7 DEF Meets

-----------------------------------------------------------------------------
(* The callbacks. *)
LEMMA Callbacks ==
    /\ DOMAIN Idle = {"at", "k", "sent"} /\ Idle.at = "idle" /\ ~Idle.sent
    /\ \A a, k : /\ DOMAIN Running(a, k) = {"at", "k", "sent"}
                  /\ Running(a, k).at = a /\ Running(a, k).k = k /\ ~Running(a, k).sent
BY DEF Idle, Running

(* A window just opened. *)
LEMMA InitEstablishes == Init => IInv
<1> USE DEF Init, SimInit
<1>1. Init => Callback /\ OnePoll BY Callbacks DEF Callback, OnePoll
<1>2. Init => Button
  <2>1. Init => sending \in BOOLEAN OBVIOUS
  <2> QED BY <2>1 DEF Button
<1>3. Init => Exchange
  <2>1. Init => Quiet BY DEF Quiet, Left
  <2> QED BY <2>1, MotionAssumption DEF Exchange, Conns, Idle
<1>4. Init => Progress BY DEF Progress, Idle, Conns
<1>5. Init => Gauged BY DEF Gauged, ShownIsOurs, Blank, Gauge, Range
<1> QED BY <1>1, <1>2, <1>3, <1>4, <1>5 DEF IInv

(* On to the next gauge or the next poll: the job is set again only when   *)
(* the poll is over.                                                       *)
LEMMA PollGoesOn ==
    ASSUME Callback, OnePoll, tk.at = "poll", PollNext
    PROVE  /\ \/ tk' = Running("poll", tk.k + 1) /\ tk.k + 1 \in 1..Len(Gauges) /\ scheduled' = {}
              \/ tk' = Idle /\ scheduled' = {job'}
<1>1. Len(Gauges) \in Nat BY MotionAssumption
<1> QED BY <1>1 DEF PollNext, Callback, OnePoll

LEMMA CallbackPreserved == ASSUME IInv, [Next]_vars PROVE Callback'
<1> USE Callbacks DEF IInv, Callback
<1>0. 1 \in 1..Len(Gauges) /\ Len(Gauges) \in Nat BY MotionAssumption
<1>1. CASE ClickConnect \/ CloseBox
  BY <1>1 DEF ClickConnect, CloseBox, Click, Ready, ToggleConnection, Greet, Refused
<1>2. CASE Connected BY <1>0, <1>2 DEF Connected
<1>3. CASE ConnectFails BY <1>3 DEF ConnectFails
<1>4. CASE Send BY <1>4 DEF Send
<1>5. ASSUME NEW n \in 1..3, Receive(n) PROVE Callback'
  <2>1. tk.at = "poll" /\ closed' = closed /\ (tk' = tk \/ PollNext) BY <1>5 DEF Receive
  <2> QED BY <1>0, <2>1, PollGoesOn
<1>6. CASE PollTimesOut \/ PollWithoutSock
  <2>1. tk.at = "poll" /\ closed' = closed /\ (tk' = Idle \/ PollNext)
    BY <1>6 DEF PollTimesOut, PollWithoutSock
  <2> QED BY <1>0, <2>1, PollGoesOn
<1>7. ASSUME NEW i \in 1..3, PollFires(i) PROVE Callback' BY <1>0, <1>7 DEF PollFires, Ready
<1>8. ASSUME NEW steps \in MoveSequences \cup SingleCommands, ClickCommand(steps) PROVE Callback'
  BY <1>8 DEF ClickCommand, Click, Ready
<1>9. CASE CommandAcked BY <1>9 DEF CommandAcked, CommandFails
<1>10. CASE CommandTimesOut \/ CommandWithoutSock
  BY <1>10 DEF CommandTimesOut, CommandWithoutSock, CommandFails
<1>11. CASE ClickFire \/ SenderWakes \/ SenderSends \/ SenderFails \/ SenderTells \/ QueuedStop
  BY <1>11 DEF ClickFire, SenderWakes, SenderSends, SenderFails, SenderTells, QueuedStop
<1>12. CASE CloseWindow BY <1>12 DEF CloseWindow, Click, Ready
<1>13. ASSUME NEW c \in Conns, Server(c) PROVE Callback' BY <1>13 DEF Server, clientVars
<1>14. CASE Physics BY <1>14 DEF Physics, clientVars
<1>15. CASE UNCHANGED vars BY <1>15 DEF vars, clientVars
<1> QED BY <1>1, <1>2, <1>3, <1>4, <1>5, <1>6, <1>7, <1>8, <1>9, <1>10, <1>11, <1>12, <1>13, <1>14,
           <1>15 DEF Next

(* The poll that start_polling or a poll's end sets is the only one, and   *)
(* whatever disconnects or closes the window cancels it.                   *)
LEMMA OnePollPreserved == ASSUME IInv, [Next]_vars PROVE OnePoll'
<1> USE Callbacks DEF IInv, Callback, OnePoll
<1>1. CASE ClickConnect \/ CloseBox
  BY <1>1 DEF ClickConnect, CloseBox, Click, Ready, ToggleConnection, Greet, Refused, Disconnect,
              StopPolling, poll
<1>2. CASE Connected BY <1>2 DEF Connected
<1>3. CASE ConnectFails BY <1>3 DEF ConnectFails, poll
<1>4. CASE Send BY <1>4 DEF Send, poll
<1>5. ASSUME NEW n \in 1..3, Receive(n) PROVE OnePoll'
  <2>1. /\ tk.at = "poll" /\ UNCHANGED <<closed, connected>>
        /\ UNCHANGED <<tk, job, scheduled>> \/ PollNext
    BY <1>5 DEF Receive
  <2> QED BY <2>1, PollGoesOn
<1>6. CASE PollTimesOut \/ PollWithoutSock
  <2>1. /\ tk.at = "poll" /\ closed' = closed
        /\ (tk' = Idle /\ StopPolling /\ connected' = FALSE) \/ (PollNext /\ connected' = connected)
    BY <1>6 DEF PollTimesOut, PollWithoutSock, Disconnect
  <2>2. CASE tk' = Idle /\ StopPolling /\ connected' = FALSE BY <2>1, <2>2 DEF StopPolling
  <2>3. CASE PollNext /\ connected' = connected BY <2>1, <2>3, PollGoesOn
  <2> QED BY <2>1, <2>2, <2>3
<1>7. ASSUME NEW i \in 1..3, PollFires(i) PROVE OnePoll' BY <1>7 DEF PollFires, Ready
<1>8. ASSUME NEW steps \in MoveSequences \cup SingleCommands, ClickCommand(steps) PROVE OnePoll'
  BY <1>8 DEF ClickCommand, Click, Ready, poll
<1>9. CASE CommandAcked BY <1>9 DEF CommandAcked, CommandFails, poll
<1>10. CASE CommandTimesOut \/ CommandWithoutSock
  BY <1>10 DEF CommandTimesOut, CommandWithoutSock, CommandFails, poll
<1>11. CASE ClickFire \/ SenderWakes \/ SenderSends \/ SenderFails \/ SenderTells \/ QueuedStop
  BY <1>11 DEF ClickFire, SenderWakes, SenderSends, SenderFails, SenderTells, QueuedStop, poll
<1>12. CASE CloseWindow BY <1>12 DEF CloseWindow, Click, Ready, StopPolling
<1>13. ASSUME NEW c \in Conns, Server(c) PROVE OnePoll' BY <1>13 DEF Server, clientVars, poll
<1>14. CASE Physics BY <1>14 DEF Physics, clientVars, poll
<1>15. CASE UNCHANGED vars BY <1>15 DEF vars, clientVars, poll
<1> QED BY <1>1, <1>2, <1>3, <1>4, <1>5, <1>6, <1>7, <1>8, <1>9, <1>10, <1>11, <1>12, <1>13, <1>14,
           <1>15 DEF Next

(* Every change of the fire client's flag changes its button, or is that   *)
(* of a thread that will have it changed.                                  *)
LEMMA ButtonPreserved == ASSUME IInv, [Next]_vars PROVE Button'
<1> USE DEF IInv, Button, StopSending
<1>0. failing \in Nat /\ stops \in Nat OBVIOUS
<1>9. ASSUME StopSending, stops' \in Nat PROVE Button'
  <2>1. sending' \in BOOLEAN BY <1>9
  <2>2. sending' = FALSE /\ text' = "START" /\ failing' = failing BY <1>9
  <2> QED BY <1>0, <1>9, <2>1, <2>2
<1>10. ASSUME UNCHANGED <<sending, text, failing, stops, closed>> PROVE Button'
  BY <1>10 DEF Told
<1>1. CASE ClickConnect \/ CloseBox \/ PollTimesOut \/ PollWithoutSock
  <2>1. UNCHANGED <<fire, closed>> \/ (StopSending /\ UNCHANGED <<stops, closed>>)
    BY <1>1 DEF ClickConnect, CloseBox, PollTimesOut, PollWithoutSock, ToggleConnection, Greet,
                Refused, Disconnect
  <2> QED BY <1>0, <1>9, <1>10, <2>1 DEF fire
<1>2. CASE ClickFire BY <1>2 DEF ClickFire, Click, Ready
<1>3. CASE SenderFails
  <2>1. sending' \in BOOLEAN BY <1>3 DEF SenderFails
  <2>2. failing' \in Nat /\ failing' > 0 /\ sending' = FALSE
        /\ UNCHANGED <<stops, text, closed>>
    BY <1>0, <1>3 DEF SenderFails
  <2> QED BY <1>0, <2>1, <2>2 DEF Told
<1>8. CASE SenderTells
  <2>1. /\ failing > 0 /\ failing' = failing - 1 /\ UNCHANGED <<sending, text, closed>>
        /\ stops' = IF closed THEN stops ELSE stops + 1
    BY <1>8 DEF SenderTells
  <2>2. failing' \in Nat /\ stops' \in Nat /\ (~closed => stops' > 0) BY <1>0, <2>1
  <2>3. CASE closed BY <2>1, <2>2, <2>3
  <2>4. CASE ~closed BY <2>1, <2>2, <2>4 DEF Told
  <2> QED BY <2>3, <2>4
<1>4. CASE QueuedStop
  <2>1. StopSending /\ stops' \in Nat BY <1>0, <1>4 DEF QueuedStop
  <2> QED BY <1>9, <2>1
<1>5. CASE CloseWindow
  <2>1. StopSending /\ stops' \in Nat BY <1>5 DEF CloseWindow
  <2> QED BY <1>9, <2>1
<1>6. CASE SenderSends \/ SenderWakes BY <1>6, <1>10 DEF SenderSends, SenderWakes
<1>7. CASE Connected \/ ConnectFails \/ Send \/ (\E n \in 1..3 : Receive(n))
           \/ (\E i \in 1..3 : PollFires(i)) \/ (\E steps \in MoveSequences \cup SingleCommands : ClickCommand(steps))
           \/ CommandAcked \/ CommandTimesOut \/ CommandWithoutSock
           \/ (\E c \in Conns : Server(c)) \/ Physics \/ UNCHANGED vars
  <2>1. UNCHANGED <<fire, closed>>
    BY <1>7 DEF Connected, ConnectFails, Send, Receive, PollFires, ClickCommand, CommandAcked,
       CommandTimesOut, CommandWithoutSock, Server, Physics, clientVars, vars
  <2> QED BY <1>10, <2>1 DEF fire
<1> QED BY <1>1, <1>2, <1>3, <1>4, <1>5, <1>6, <1>7, <1>8 DEF Next

(* An exchange can be given up at any time: what it leaves is harmless. *)
LEMMA LeavesLittle == ASSUME IInv PROVE Left(buf)
<1>1. tk.at = "poll" /\ tk.sent => Gauges[tk.k] \in Gauge
  BY MotionAssumption DEF IInv, Callback, Gauge, Range
<1>2. ASSUME NEW g \in Gauge, Meets(g, buf, wire) PROVE Left(buf) BY <1>2 DEF Meets, Left
<1> QED BY <1>1, <1>2 DEF IInv, Callback, Exchange, Quiet, Answering, Acking

(* A callback that asks for nothing yet finds its connection quiet. *)
LEMMA GoesQuiet ==
    ASSUME IInv, ~tk'.sent, tk'.at # "connect", pending' = pending, conns' = conns,
           sock' \in {0, sock}, buf' = buf, wire' = <<>>, sock' # 0 => pending[sock] = {}
    PROVE  Exchange'
<1>1. Quiet' BY LeavesLittle DEF Quiet, Left
<1> QED BY <1>1 DEF IInv, Exchange, Conns

(* A step that leaves the exchange alone. *)
LEMMA ExchangeStays ==
    ASSUME IInv, UNCHANGED <<sock, conns, buf, pending, wire, tk>> PROVE Exchange'
<1>1. Quiet' <=> Quiet BY DEF Quiet, Left
<1>2. Answering' <=> Answering BY DEF Answering, Asked
<1>3. Acking' <=> Acking BY DEF Acking, Left
<1> QED BY <1>1, <1>2, <1>3 DEF IInv, Exchange, Conns

(* A poll goes on, or is over, with its connection quiet or closed. *)
LEMMA PollEnds == ASSUME IInv, tk.at = "poll", PollNext PROVE ~tk'.sent /\ tk'.at # "connect"
BY PollGoesOn, Callbacks DEF IInv

(* toggle_connection from the event loop. *)
LEMMA ToggleExchange == ASSUME IInv, Ready, ToggleConnection PROVE Exchange'
<1>0. Quiet /\ ~tk.sent /\ tk.at = "idle" BY Callbacks DEF IInv, Exchange, Ready
<1>1. CASE connected /\ Disconnect /\ tk' = Idle
  <2>1. sock' = 0 /\ wire' = <<>> /\ UNCHANGED <<conns, buf, pending>>
    BY <1>1 DEF Disconnect, CloseSock
  <2> QED BY <1>1, <2>1, GoesQuiet, Callbacks
<1>2. CASE Refused
  <2>1. sock' = 0 /\ UNCHANGED <<conns, buf, pending, wire>> /\ tk' = Idle
    BY <1>2 DEF Refused, simVars
  <2> QED BY <1>0, <2>1, GoesQuiet, Callbacks DEF Quiet
<1>3. CASE Greet
  <2> PICK cmd : cmd = [op |-> "greet", arg |-> 0, of |-> 0, step |-> 0] OBVIOUS
  <2>1. /\ conns < MaxConns /\ conns' = conns + 1 /\ sock' = conns + 1 /\ wire' = <<>>
        /\ pending' = [pending EXCEPT ![conns + 1] = {cmd}] /\ buf' = buf
        /\ tk'.at = "connect" /\ tk'.sent
    BY <1>3 DEF Greet
  <2>2. conns + 1 \in Conns /\ conns \in Nat BY <2>1, MotionAssumption DEF IInv, Exchange, Conns
  <2>3. /\ pending'[conns + 1] = {cmd} /\ cmd.op # "get"
        /\ pending' = [c \in Conns |-> pending'[c]]
        /\ \A c \in Conns : c # conns + 1 => pending'[c] = pending[c]
    BY <2>1, <2>2 DEF IInv, Exchange
  <2>4. Acking' BY <2>1, <2>3, LeavesLittle DEF Acking, Left
  <2>5. \A c \in Conns : \A d, e \in pending'[c] : d = e BY <2>3 DEF IInv, Exchange
  <2> QED BY <2>1, <2>2, <2>3, <2>4, <2>5, MotionAssumption DEF Exchange, Conns
<1> QED BY <1>1, <1>2, <1>3 DEF ToggleConnection

(* What a callback asks for is all its connection holds. *)
LEMMA SendExchange == ASSUME IInv, Send PROVE Exchange'
<1> PICK cmd : cmd = IF tk.at = "poll" THEN [op |-> "get", arg |-> Gauges[tk.k], of |-> 0, step |-> 0]
                     ELSE [op |-> todo[tk.k].op, arg |-> todo[tk.k].arg, of |-> commands, step |-> tk.k]
  OBVIOUS
<1>1. /\ tk.at \in {"poll", "cmd"} /\ ~tk.sent /\ sock # 0
      /\ pending' = [pending EXCEPT ![sock] = {cmd}] /\ tk' = [tk EXCEPT !.sent = TRUE]
      /\ UNCHANGED <<sock, conns, buf, wire>>
  BY DEF Send, tcp
<1>2. tk'.at = tk.at /\ tk'.k = tk.k /\ tk'.sent BY <1>1 DEF IInv, Callback
<1>3. sock \in Conns /\ Quiet BY <1>1, MotionAssumption DEF IInv, Exchange, Conns
<1>4. /\ pending'[sock] = {cmd} /\ pending' = [c \in Conns |-> pending'[c]]
      /\ \A c \in Conns : c # sock => pending'[c] = pending[c]
  BY <1>1, <1>3 DEF IInv, Exchange
<1>5. \A c \in Conns : \A d, e \in pending'[c] : d = e BY <1>4 DEF IInv, Exchange
<1>6. tk.at = "poll" => Answering'
  <2>1. tk.at = "poll" => Asked' = cmd BY <1>2 DEF Asked
  <2>2. Meets(Gauges[tk.k], buf, wire) /\ wire = <<>> BY <1>3 DEF Quiet, Meets
  <2> QED BY <1>1, <1>2, <1>4, <2>1, <2>2 DEF Answering
<1>7. tk.at = "cmd" => Acking'
  <2>1. tk.at = "cmd" => cmd.op # "get" BY DEF IInv, Progress
  <2> QED BY <1>1, <1>3, <1>4, <2>1 DEF Acking, Quiet, Left
<1> QED BY <1>1, <1>2, <1>4, <1>5, <1>6, <1>7 DEF IInv, Exchange

(* A request reads until its packet is whole. *)
LEMMA ReceiveExchange ==
    ASSUME IInv, NEW n \in 1..3, Receive(n)
    PROVE  /\ Exchange'
           /\ shown' = shown \/ shown' = [shown EXCEPT ![Gauges[tk.k]] = Gauges[tk.k]]
<1> PICK g : g = Gauges[tk.k] OBVIOUS
<1>0. PICK B, v : Feeds(buf, wire, n, B, v) BY DEF Feeds
<1> PICK p : p = Parse(B) OBVIOUS
<1>1. /\ tk.at = "poll" /\ tk.sent /\ n \in 1..Len(wire)
      /\ buf' = p.rest /\ wire' = v /\ UNCHANGED <<sock, conns, pending>>
      /\ IF p.packet = {} THEN UNCHANGED <<tk, job, scheduled, shown>>
         ELSE /\ \E y \in p.packet : shown' = [shown EXCEPT ![g] = y]
              /\ PollNext
  BY <1>0 DEF Receive, Feeds
<1>2. g \in Gauge BY <1>1, MotionAssumption DEF IInv, Callback, Gauge, Range
<1>3. Answering /\ Meets(g, buf, wire) BY <1>1 DEF IInv, Exchange, Answering
<1>4. wire # <<>> BY <1>1
<1>5. pending[sock] = {} BY <1>3, <1>4 DEF Answering
<1>6. /\ Meets(g, p.rest, v)
      /\ p.packet = {} \/ (p.packet = {g} /\ v = <<>> /\ Left(p.rest))
  <2>1. n \in 1..Len(wire) /\ Meets(g, buf, wire) BY <1>1, <1>3
  <2>2. /\ Meets(g, Parse(B).rest, v)
        /\ Parse(B).packet = {} \/ (Parse(B).packet = {g} /\ v = <<>> /\ Left(Parse(B).rest))
    BY <1>0, <1>2, <2>1, Reads
  <2> QED BY <2>2
<1>7. CASE p.packet = {}
  <2>2. Answering' BY <1>1, <1>5, <1>6, <1>7 DEF Answering
  <2> QED BY <1>1, <1>7, <2>2 DEF IInv, Exchange, Conns
<1>8. CASE p.packet = {g} /\ v = <<>> /\ Left(p.rest)
  <2>1. ~tk'.sent /\ tk'.at # "connect" BY <1>1, <1>8, PollEnds
  <2>2. Quiet' BY <1>1, <1>5, <1>8 DEF Quiet, Left
  <2> QED BY <1>1, <1>8, <2>1, <2>2 DEF IInv, Exchange, Conns
<1> QED BY <1>6, <1>7, <1>8

(* The server answers what the connection holds, or loses it; a closed     *)
(* connection's answer reaches nobody.                                     *)
LEMMA ServerExchange == ASSUME IInv, NEW c \in Conns, Server(c) PROVE Exchange'
<1>1. PICK cmd \in pending[c] :
        /\ pending' = [pending EXCEPT ![c] = {}]
        /\ \/ wire' = wire
           \/ c = sock /\ wire' = wire \o (IF cmd.op = "get" THEN Reply(cmd.arg) ELSE Ack)
  BY DEF Server, Handle, LosePacket
<1>2. UNCHANGED <<sock, conns, buf, tk>> BY DEF Server, clientVars, tcp
<1>3. /\ pending'[c] = {} /\ pending' = [d \in Conns |-> pending'[d]]
      /\ \A d \in Conns : d # c => pending'[d] = pending[d]
  BY <1>1 DEF IInv, Exchange
<1>4. \A d \in Conns : \A x, y \in pending'[d] : x = y BY <1>3 DEF IInv, Exchange
<1>5. sock = 0 \/ sock \in Conns BY MotionAssumption DEF IInv, Exchange, Conns
<1>6. CASE c # sock
  <2>1. wire' = wire BY <1>1, <1>6
  <2>2. sock # 0 => pending'[sock] = pending[sock] BY <1>3, <1>5, <1>6
  <2>3. Quiet => Quiet' BY <1>2, <2>1, <2>2 DEF Quiet, Left
  <2>4. sock # 0 /\ Answering => Answering' BY <1>2, <2>1, <2>2 DEF Answering, Asked
  <2>5. sock # 0 /\ Acking => Acking' BY <1>2, <2>1, <2>2 DEF Acking, Left
  <2> QED BY <1>2, <1>3, <1>4, <2>3, <2>4, <2>5 DEF IInv, Exchange
<1>7. CASE c = sock
  <2>1. sock # 0 /\ pending[sock] # {} BY <1>1, <1>7 DEF Conns
  <2>2. tk.sent /\ tk.at # "idle" BY <2>1 DEF IInv, Exchange, Quiet
  <2>3. CASE tk.at = "poll"
    <3>1. Answering BY <2>2, <2>3 DEF IInv, Exchange
    <3>2. cmd = Asked /\ wire = <<>> BY <1>1, <1>7, <3>1 DEF Answering
    <3>3. Left(buf) BY LeavesLittle
    <3>4. cmd.op = "get" /\ cmd.arg = Gauges[tk.k] BY <3>2 DEF Asked
    <3>5. wire' \in {<<>>, Reply(Gauges[tk.k])}
      <4>1. <<>> \o Reply(Gauges[tk.k]) = Reply(Gauges[tk.k]) BY DEF Reply
      <4> QED BY <1>1, <3>2, <3>4, <4>1
    <3>6. Answering' BY <1>2, <1>3, <1>7, <3>3, <3>5 DEF Answering, Meets
    <3> QED BY <1>2, <1>3, <1>4, <2>2, <2>3, <3>6 DEF IInv, Exchange
  <2>4. CASE tk.at \in {"connect", "cmd"}
    <3>1. Acking BY <2>2, <2>4 DEF IInv, Exchange
    <3>2. cmd.op # "get" /\ wire = <<>> /\ Left(buf) BY <1>1, <1>7, <3>1 DEF Acking
    <3>3. wire' \in {<<>>, Ack}
      <4>1. <<>> \o Ack = Ack BY DEF Ack
      <4> QED BY <1>1, <3>2, <4>1
    <3>4. Acking' BY <1>2, <1>3, <1>7, <3>2, <3>3 DEF Acking
    <3> QED BY <1>2, <1>3, <1>4, <2>2, <2>4, <3>4 DEF IInv, Exchange
  <2> QED BY <2>2, <2>3, <2>4 DEF IInv, Callback
<1> QED BY <1>6, <1>7

LEMMA AckIsThere == Ack # <<>>
BY DEF Ack

(* A connection that is open and given up is closed, and one that goes on  *)
(* being used is quiet when its callback is done with it.                  *)
LEMMA ExchangePreserved == ASSUME IInv, [Next]_vars PROVE Exchange'
<1>0. sock \in {0, sock} /\ 0 \in {0, sock} OBVIOUS
<1>1. CASE ClickConnect BY <1>1, ToggleExchange DEF ClickConnect, Click
<1>2. CASE CloseBox
  <2>1. CASE ToggleConnection BY <1>2, <2>1, ToggleExchange DEF CloseBox
  <2>2. CASE UNCHANGED <<tcp, poll, tk, fire, faults, simVars>>
    BY <2>2, ExchangeStays DEF tcp, simVars
  <2> QED BY <1>2, <2>1, <2>2 DEF CloseBox
<1>3. CASE Connected
  <2>1. /\ tk.at = "connect" /\ wire = Ack /\ wire' = <<>> /\ tk' = Running("poll", 1)
        /\ UNCHANGED <<sock, conns, buf, pending>>
    BY <1>3 DEF Connected, tcp
  <2>2. pending[sock] = {} BY <2>1, AckIsThere DEF IInv, Exchange, Acking
  <2> QED BY <1>0, <2>1, <2>2, GoesQuiet, Callbacks
<1>4. CASE ConnectFails
  <2>1. CASE CloseSock /\ UNCHANGED pending
    <3>1. sock' = 0 /\ wire' = <<>> /\ tk' = Idle /\ UNCHANGED <<conns, buf, pending>>
      BY <1>4, <2>1 DEF ConnectFails, CloseSock
    <3> QED BY <1>0, <3>1, GoesQuiet, Callbacks
  <2>2. CASE pending' = [pending EXCEPT ![sock] = {}] /\ UNCHANGED <<tcp, wire>>
    <3>1. /\ tk' = Idle /\ wire = <<>> /\ wire' = <<>> /\ UNCHANGED <<sock, conns, buf>>
          /\ tk.at = "connect"
      BY <1>4, <2>2 DEF ConnectFails, tcp
    <3>2. Left(buf) /\ sock \in Conns
      BY <3>1, MotionAssumption DEF IInv, Exchange, Acking, Conns
    <3>3. pending' = [c \in Conns |-> pending'[c]]
          /\ \A c \in Conns : pending'[c] = IF c = sock THEN {} ELSE pending[c]
      BY <2>2, <3>2 DEF IInv, Exchange
    <3> QED BY <1>0, <3>1, <3>2, <3>3, Callbacks DEF IInv, Exchange, Quiet
  <2> QED BY <1>4, <2>1, <2>2 DEF ConnectFails
<1>5. CASE Send BY <1>5, SendExchange
<1>6. ASSUME NEW n \in 1..3, Receive(n) PROVE Exchange' BY <1>6, ReceiveExchange
<1>7. CASE PollTimesOut
  <2>1. /\ tk.at = "poll" /\ sock' = 0 /\ wire' = <<>> /\ (tk' = Idle \/ PollNext)
        /\ UNCHANGED <<conns, buf, pending>>
    BY <1>7 DEF PollTimesOut, CloseSock, Disconnect
  <2>2. ~tk'.sent /\ tk'.at # "connect" BY <2>1, PollEnds, Callbacks
  <2> QED BY <1>0, <2>1, <2>2, GoesQuiet
<1>8. CASE PollWithoutSock
  <2>1. /\ tk.at = "poll" /\ ~tk.sent /\ sock = 0 /\ (tk' = Idle \/ PollNext)
        /\ sock' = 0 /\ wire' \in {wire, <<>>} /\ UNCHANGED <<conns, buf, pending>>
    BY <1>8 DEF PollWithoutSock, CloseSock, Disconnect, tcp
  <2>2. ~tk'.sent /\ tk'.at # "connect" BY <2>1, PollEnds, Callbacks
  <2>3. wire' = <<>> BY <2>1 DEF IInv, Exchange, Quiet
  <2> QED BY <1>0, <2>1, <2>2, <2>3, GoesQuiet
<1>9. CASE (\E i \in 1..3 : PollFires(i)) \/ (\E steps \in MoveSequences \cup SingleCommands : ClickCommand(steps))
  <2>1. Ready /\ (tk' = Idle \/ \E a \in {"poll", "cmd"} : tk' = Running(a, 1))
        /\ UNCHANGED <<sock, conns, buf, pending, wire>>
    BY <1>9 DEF PollFires, ClickCommand, Click, tcp, simVars
  <2>2. Quiet BY <2>1, Callbacks DEF IInv, Exchange, Ready
  <2>3. ~tk'.sent /\ tk'.at # "connect" BY <2>1, Callbacks
  <2> QED BY <1>0, <2>1, <2>2, <2>3, GoesQuiet DEF Quiet
<1>10. CASE CommandAcked
  <2>1. /\ tk.at = "cmd" /\ tk.sent /\ wire # <<>> /\ wire' = <<>>
        /\ tk' = Idle \/ tk' = Running("cmd", tk.k + 1)
        /\ UNCHANGED <<sock, conns, buf, pending>>
    BY <1>10 DEF CommandAcked, CommandFails, tcp
  <2>2. pending[sock] = {} BY <2>1 DEF IInv, Exchange, Acking
  <2>3. ~tk'.sent /\ tk'.at # "connect" BY <2>1, Callbacks
  <2> QED BY <1>0, <2>1, <2>2, <2>3, GoesQuiet
<1>11. CASE CommandTimesOut
  <2>1. sock' = 0 /\ wire' = <<>> /\ tk' = Idle /\ UNCHANGED <<conns, buf, pending>>
    BY <1>11 DEF CommandTimesOut, CloseSock, CommandFails
  <2> QED BY <1>0, <2>1, GoesQuiet, Callbacks
<1>12. CASE CommandWithoutSock
  <2>1. ~tk.sent /\ sock = 0 /\ tk' = Idle /\ UNCHANGED <<sock, conns, buf, pending, wire>>
    BY <1>12 DEF CommandWithoutSock, CommandFails, tcp, simVars
  <2>2. wire = <<>> BY <2>1 DEF IInv, Exchange, Quiet
  <2> QED BY <1>0, <2>1, <2>2, GoesQuiet, Callbacks
<1>13. CASE ClickFire \/ SenderWakes \/ SenderSends \/ SenderFails \/ SenderTells \/ QueuedStop
  <2>1. UNCHANGED <<tcp, tk, simVars>>
    BY <1>13 DEF ClickFire, SenderWakes, SenderSends, SenderFails, SenderTells, QueuedStop
  <2> QED BY <2>1, ExchangeStays DEF tcp, simVars
<1>14. CASE CloseWindow
  <2>1. sock' = 0 /\ wire' = <<>> /\ tk' = tk /\ tk = Idle /\ UNCHANGED <<conns, buf, pending>>
    BY <1>14 DEF CloseWindow, CloseSock, Click, Ready
  <2> QED BY <1>0, <2>1, GoesQuiet, Callbacks
<1>15. ASSUME NEW c \in Conns, Server(c) PROVE Exchange' BY <1>15, ServerExchange
<1>16. CASE Physics
  BY <1>16, ExchangeStays DEF Physics, Update, clientVars, tcp
<1>17. CASE UNCHANGED vars BY <1>17, ExchangeStays DEF vars, clientVars, tcp, simVars
<1> QED BY <1>1, <1>2, <1>3, <1>4, <1>5, <1>6, <1>7, <1>8, <1>9, <1>10, <1>11, <1>12, <1>13, <1>14,
           <1>15, <1>16, <1>17 DEF Next

-----------------------------------------------------------------------------
(* A step that is no command's and asks the server for nothing. *)
LEMMA ProgressOutside ==
    ASSUME IInv, UNCHANGED <<commands, ran, pending, todo>>, said' \in {said, "failed"},
           tk'.at # "cmd"
    PROVE  Progress'
BY DEF IInv, Progress, Ours

LEMMA ProgressStays ==
    ASSUME IInv, UNCHANGED <<commands, ran, pending, todo, said, tk, wire, sock>> PROVE Progress'
BY DEF IInv, Progress, Ours

(* What a connection is given that is no step of the last command. *)
LEMMA ProgressAsks ==
    ASSUME IInv, NEW c \in Conns, NEW cmd, cmd.of = 0, pending' = [pending EXCEPT ![c] = {cmd}],
           UNCHANGED <<commands, ran, todo, said>>, tk'.at # "cmd"
    PROVE  Progress'
<1>1. \A d \in Conns : pending'[d] = IF d = c THEN {cmd} ELSE pending[d] BY DEF IInv, Exchange
<1>2. ~Ours(cmd) /\ cmd.of \in 0..commands BY DEF IInv, Progress, Ours
<1>3. \A d \in Conns : \A e \in pending'[d] :
        e.of \in 0..commands /\ (Ours(e) => e \in pending[d])
  BY <1>1, <1>2 DEF IInv, Progress
<1>4. \A e : Ours(e)' <=> Ours(e) BY DEF Ours
<1> QED BY <1>3, <1>4 DEF IInv, Progress

(* toggle_connection's greeting is no step of a command. *)
LEMMA ToggleProgress == ASSUME IInv, Ready, ToggleConnection, UNCHANGED order PROVE Progress'
<1> USE DEF order
<1>1. CASE Greet
  <2> PICK cmd : cmd = [op |-> "greet", arg |-> 0, of |-> 0, step |-> 0] OBVIOUS
  <2>1. /\ conns < MaxConns /\ pending' = [pending EXCEPT ![conns + 1] = {cmd}] /\ ran' = ran
        /\ tk'.at = "connect"
    BY <1>1 DEF Greet
  <2>2. conns + 1 \in Conns BY <2>1, MotionAssumption DEF IInv, Exchange, Conns
  <2>3. cmd.of = 0 OBVIOUS
  <2> QED BY <2>1, <2>2, <2>3, ProgressAsks
<1>2. CASE Refused \/ (Disconnect /\ tk' = Idle)
  <2>1. UNCHANGED <<ran, pending>> /\ tk' = Idle BY <1>2 DEF Refused, Disconnect, simVars
  <2> QED BY <2>1, ProgressOutside, Callbacks
<1> QED BY <1>1, <1>2 DEF ToggleConnection

(* A step is sent once the ones before it were run. *)
LEMMA SendProgress == ASSUME IInv, Send PROVE Progress'
<1> PICK cmd : cmd = IF tk.at = "poll" THEN [op |-> "get", arg |-> Gauges[tk.k], of |-> 0, step |-> 0]
                     ELSE [op |-> todo[tk.k].op, arg |-> todo[tk.k].arg, of |-> commands, step |-> tk.k]
  OBVIOUS
<1>1. /\ tk.at \in {"poll", "cmd"} /\ ~tk.sent /\ sock # 0
      /\ pending' = [pending EXCEPT ![sock] = {cmd}] /\ tk' = [tk EXCEPT !.sent = TRUE]
      /\ UNCHANGED <<sock, wire, commands, ran, todo, said>>
  BY DEF Send, tcp, order
<1>2. tk'.at = tk.at /\ tk'.k = tk.k /\ tk'.sent BY <1>1 DEF IInv, Callback
<1>3. sock \in Conns /\ wire = <<>> BY <1>1, MotionAssumption DEF IInv, Exchange, Conns, Quiet
<1>4. CASE tk.at = "poll"
  <2>1. cmd.of = 0 BY <1>4
  <2> QED BY <1>1, <1>2, <1>3, <1>4, <2>1, ProgressAsks
<1>5. CASE tk.at = "cmd"
  <2>1. cmd.of = commands /\ cmd.step = tk.k BY <1>5
  <2>2. Len(ran) = tk.k - 1 /\ said = "none" /\ commands # 0 /\ commands \in Nat /\ Ours(cmd)
        /\ tk.k \in 1..Len(todo) /\ Len(todo) \in Nat
    BY <1>1, <1>5, <2>1 DEF IInv, Progress, Ours
  <2>3. \A d \in Conns : pending'[d] = IF d = sock THEN {cmd} ELSE pending[d]
    BY <1>1, <1>3 DEF IInv, Exchange
  <2>4. \A d \in Conns : \A e \in pending[d] : ~Ours(e) /\ e.of \in 0..commands
    BY <1>1, <1>5 DEF IInv, Progress
  <2>5. \A d \in Conns : \A e \in pending'[d] :
          e.of \in 0..commands /\ (Ours(e) => d = sock /\ e = cmd)
    BY <2>1, <2>2, <2>3, <2>4
  <2>6. \A e : Ours(e)' <=> Ours(e) BY <1>1 DEF Ours
  <2>7. cmd.step = Len(ran) + 1 BY <2>1, <2>2
  <2>8. \A e \in pending'[sock] : Ours(e) BY <1>3, <2>2, <2>3
  <2> QED BY <1>1, <1>2, <1>3, <1>5, <2>2, <2>5, <2>6, <2>7, <2>8 DEF IInv, Progress
<1> QED BY <1>1, <1>4, <1>5

(* The server runs the step it holds, the next one, and no other. *)
LEMMA ServerProgress == ASSUME IInv, NEW c \in Conns, Server(c) PROVE Progress'
<1>1. PICK cmd \in pending[c] :
        /\ pending' = [pending EXCEPT ![c] = {}]
        /\ \/ wire' = wire /\ ran' = ran
           \/ /\ ran' = IF Ours(cmd) THEN Append(ran, cmd.step) ELSE ran
              /\ wire' = IF c # sock THEN wire
                         ELSE wire \o (IF cmd.op = "get" THEN Reply(cmd.arg) ELSE Ack)
  BY DEF Server, Handle, LosePacket, Ours
<1>2. UNCHANGED <<sock, tk, commands, todo, said>> BY DEF Server, clientVars, tcp, order
<1>3. \A d \in Conns : pending'[d] = IF d = c THEN {} ELSE pending[d]
  BY <1>1 DEF IInv, Exchange
<1>4. \A e : Ours(e)' <=> Ours(e) BY <1>2 DEF Ours
<1>5. /\ commands' \in Nat /\ Len(todo') \in Nat
      /\ \A d \in Conns : \A e \in pending'[d] : e \in pending[d] /\ d # c
      /\ \A d \in Conns : \A e \in pending'[d] : e.of \in 0..commands
  BY <1>2, <1>3 DEF IInv, Progress
<1>6. sock = 0 \/ sock \in Conns BY MotionAssumption DEF IInv, Exchange, Conns
<1>12. tk.sent => \A e \in pending'[sock] : e \in pending[sock]
  BY <1>3, <1>6 DEF IInv, Exchange
<1>7. ASSUME tk.at = "cmd", c = sock PROVE tk.sent /\ Ours(cmd) /\ wire = <<>> /\ cmd.op # "get"
  <2>1. tk.sent BY <1>1, <1>6, <1>7 DEF IInv, Exchange, Quiet, Conns
  <2>2. Acking BY <1>7, <2>1 DEF IInv, Exchange
  <2> QED BY <1>1, <1>7, <2>1, <2>2 DEF IInv, Progress, Acking
<1>8. ASSUME tk.at = "cmd", c # sock PROVE ~Ours(cmd)
  BY <1>1, <1>8 DEF IInv, Progress
<1>9. CASE ran' = ran /\ ~(Ours(cmd) /\ wire' # wire)
  <2>1. tk.at = "cmd" => wire' = wire BY <1>1, <1>7, <1>8, <1>9
  <2>2. \A d \in Conns : \A e \in pending'[d] : Ours(e) =>
          /\ e.step = Len(ran) + 1 /\ said # "success"
          /\ \A f \in Conns : \A h \in pending'[f] : Ours(h) => f = d
    BY <1>5 DEF IInv, Progress
  <2>3. tk.at = "cmd" =>
          /\ \A d \in Conns : \A e \in pending'[d] : Ours(e) => tk.sent /\ d = sock
          /\ tk.sent => \A e \in pending'[sock] : Ours(e)
    BY <1>5, <1>12 DEF IInv, Progress
  <2> QED BY <1>2, <1>4, <1>5, <1>9, <2>1, <2>2, <2>3 DEF IInv, Progress
<1>10. CASE Ours(cmd) /\ ran' = Append(ran, cmd.step)
  <2>1. /\ cmd.step = Len(ran) + 1 /\ said # "success" /\ Len(ran) \in Nat
        /\ \A d \in Conns : \A e \in pending[d] : Ours(e) => d = c
    BY <1>1, <1>10 DEF IInv, Progress
  <2>2. \A d \in Conns : \A e \in pending'[d] : ~Ours(e) BY <1>5, <2>1
  <2>3. /\ ran' \in Seq(Nat) /\ Len(ran') = Len(ran) + 1
        /\ \A i \in 1..Len(ran') : ran'[i] = i
    BY <1>10, <2>1 DEF IInv, Progress
  <2>4. tk.at = "cmd" => tk.sent /\ wire' # <<>> /\ Len(ran') = tk.k
    <3> SUFFICES ASSUME tk.at = "cmd" PROVE tk.sent /\ wire' # <<>> /\ Len(ran') = tk.k OBVIOUS
    <3>1. c = sock BY <1>8, <1>10
    <3>2. tk.sent /\ wire = <<>> /\ cmd.op # "get" BY <1>7, <3>1
    <3>3. wire' = <<>> \o Ack BY <1>1, <1>10, <2>3, <3>1, <3>2
    <3>4. wire' # <<>> BY <3>3 DEF Ack
    <3>5. Len(ran) = tk.k - 1 /\ tk.k \in 1..Len(todo) BY <3>2 DEF IInv, Progress
    <3> QED BY <2>3, <3>2, <3>4, <3>5
  <2>5. tk.at = "cmd" => \A e \in pending'[sock] : Ours(e) BY <1>12, <2>4 DEF IInv, Progress
  <2> QED BY <1>2, <1>4, <1>5, <2>1, <2>2, <2>3, <2>4, <2>5 DEF IInv, Progress
<1> QED BY <1>1, <1>7, <1>8, <1>9, <1>10

(* A command starts with none of its steps sent or run. *)
LEMMA SequenceSteps ==
    ASSUME NEW steps \in MoveSequences \cup SingleCommands
    PROVE  Len(steps) \in Nat /\ Len(steps) >= 1 /\ \A i \in 1..Len(steps) : steps[i].op # "get"
<1>1. ASSUME NEW a, NEW x, a # "get" PROVE Step(a, x).op # "get" BY <1>1 DEF Step
<1>2. ASSUME NEW op \in {"on", "off", "set"}, steps = <<Step(op, 0)>>
      PROVE  Len(steps) = 1 /\ steps[1].op # "get"
  <2>1. Len(steps) = 1 /\ steps[1] = Step(op, 0) BY <1>2
  <2> QED BY <1>1, <2>1
<1>3. ASSUME NEW v \in Speeds, NEW mv \in Moves,
             steps = <<Step("mode", 0), Step("accel", 0), Step("speed", v), Step(mv.kind, mv.by),
                       Step("update", 0)>>
      PROVE  Len(steps) = 5 /\ \A i \in 1..5 : steps[i].op # "get"
  <2>1. mv.kind # "get" BY MotionAssumption
  <2>2. /\ Len(steps) = 5 /\ steps[1] = Step("mode", 0) /\ steps[2] = Step("accel", 0)
        /\ steps[3] = Step("speed", v) /\ steps[4] = Step(mv.kind, mv.by)
        /\ steps[5] = Step("update", 0)
    BY <1>3
  <2>3. \A i \in 1..5 : i = 1 \/ i = 2 \/ i = 3 \/ i = 4 \/ i = 5 OBVIOUS
  <2> QED BY <1>1, <2>1, <2>2, <2>3
<1>4. \/ \E op \in {"on", "off", "set"} : steps = <<Step(op, 0)>>
      \/ \E v \in Speeds, mv \in Moves :
           steps = <<Step("mode", 0), Step("accel", 0), Step("speed", v), Step(mv.kind, mv.by),
                     Step("update", 0)>>
  BY DEF MoveSequences, SingleCommands
<1>5. CASE \E op \in {"on", "off", "set"} : steps = <<Step(op, 0)>>
  <2>1. Len(steps) = 1 /\ steps[1].op # "get" BY <1>2, <1>5
  <2> QED BY <2>1
<1>6. CASE \E v \in Speeds, mv \in Moves :
             steps = <<Step("mode", 0), Step("accel", 0), Step("speed", v), Step(mv.kind, mv.by),
                       Step("update", 0)>>
  <2>1. Len(steps) = 5 /\ \A i \in 1..5 : steps[i].op # "get" BY <1>3, <1>6
  <2> QED BY <2>1
<1> QED BY <1>4, <1>5, <1>6

LEMMA CommandProgress ==
    ASSUME IInv, NEW steps \in MoveSequences \cup SingleCommands, ClickCommand(steps) PROVE Progress'
<1>1. /\ commands' = commands + 1 /\ todo' = steps /\ said' = "none" /\ ran' = <<>>
      /\ tk' = Running("cmd", 1) /\ UNCHANGED <<pending, sock>>
  BY DEF ClickCommand, tcp
<1>2. tk'.at = "cmd" /\ tk'.k = 1 /\ ~tk'.sent BY <1>1, Callbacks
<1>3. commands' \in Nat /\ commands' # 0 /\ commands \in Nat BY <1>1 DEF IInv, Progress
<1>4. \A c \in Conns : \A cmd \in pending'[c] : cmd.of \in 0..commands' /\ ~Ours(cmd)'
  BY <1>1, <1>3 DEF IInv, Progress, Ours
<1>5. ran' \in Seq(Nat) /\ Len(ran') = 0 /\ \A i \in 1..Len(ran') : ran'[i] = i BY <1>1
<1>6. /\ Len(todo') \in Nat /\ 1 \in 1..Len(todo')
      /\ \A i \in 1..Len(todo') : todo'[i].op # "get"
  BY <1>1, SequenceSteps
<1> QED BY <1>1, <1>2, <1>3, <1>4, <1>5, <1>6 DEF Progress

(* Each ACK says that its step was run: a late one's connection is closed. *)
LEMMA AckedProgress == ASSUME IInv, CommandAcked PROVE Progress'
<1>1. /\ tk.at = "cmd" /\ tk.sent /\ wire # <<>> /\ wire' = <<>>
      /\ UNCHANGED <<sock, commands, todo, pending, ran>>
  BY DEF CommandAcked, tcp
<1>2. CASE CommandFails
  BY <1>1, <1>2, ProgressOutside, Callbacks DEF CommandFails
<1>3. CASE ~CommandFails
  <2>1. Len(ran) = tk.k /\ tk.k \in 1..Len(todo) /\ Len(todo) \in Nat /\ pending[sock] = {}
    BY <1>1 DEF IInv, Progress, Exchange, Acking
  <2>2. \A c \in Conns : \A cmd \in pending[c] : ~Ours(cmd)
    BY <1>1, <2>1 DEF IInv, Progress
  <2>3. \A e : Ours(e)' <=> Ours(e) BY <1>1 DEF Ours
  <2>4. CASE tk' = Running("cmd", tk.k + 1) /\ said' = said /\ tk.k < Len(todo)
    <3>1. tk'.at = "cmd" /\ tk'.k = tk.k + 1 /\ ~tk'.sent BY <2>4, Callbacks
    <3>2. tk'.k \in 1..Len(todo) /\ Len(ran) = tk'.k - 1 BY <2>1, <2>4, <3>1
    <3> QED BY <1>1, <2>1, <2>2, <2>3, <2>4, <3>1, <3>2 DEF IInv, Progress
  <2>5. CASE tk' = Idle /\ said' = "success" /\ ~(tk.k < Len(todo))
    <3>1. tk'.at = "idle" BY <2>5, Callbacks
    <3>2. Len(ran) = Len(todo) BY <2>1, <2>5
    <3> QED BY <1>1, <2>2, <2>3, <3>1, <3>2 DEF IInv, Progress
  <2> QED BY <1>3, <2>4, <2>5 DEF CommandAcked
<1> QED BY <1>2, <1>3

LEMMA ProgressPreserved == ASSUME IInv, [Next]_vars PROVE Progress'
<1>1. CASE ClickConnect BY <1>1, ToggleProgress DEF ClickConnect, Click
<1>2. CASE CloseBox
  <2>1. CASE ToggleConnection BY <1>2, <2>1, ToggleProgress DEF CloseBox
  <2>2. CASE UNCHANGED <<tcp, poll, tk, fire, faults, simVars>>
    BY <1>2, <2>2, ProgressStays DEF CloseBox, tcp, simVars, order
  <2> QED BY <1>2, <2>1, <2>2 DEF CloseBox
<1>3. CASE Connected BY <1>3, ProgressOutside, Callbacks DEF Connected, order
<1>4. CASE ConnectFails
  <2>1. UNCHANGED <<commands, ran, todo, said>> /\ tk'.at # "cmd"
    BY <1>4, Callbacks DEF ConnectFails, order
  <2>2. CASE UNCHANGED pending BY <2>1, <2>2, ProgressOutside
  <2>3. CASE pending' = [pending EXCEPT ![sock] = {}]
    <3>1. \A c \in Conns : \A cmd \in pending'[c] : cmd \in pending[c]
      BY <2>3 DEF IInv, Exchange
    <3>2. \A e : Ours(e)' <=> Ours(e) BY <2>1 DEF Ours
    <3> QED BY <2>1, <3>1, <3>2 DEF IInv, Progress
  <2> QED BY <1>4, <2>2, <2>3 DEF ConnectFails
<1>5. CASE Send BY <1>5, SendProgress
<1>6. CASE (\E n \in 1..3 : Receive(n)) \/ PollTimesOut \/ PollWithoutSock
  <2>1. /\ tk.at = "poll" /\ (tk' = tk \/ tk' = Idle \/ PollNext)
        /\ UNCHANGED <<commands, ran, pending, todo, said>>
    BY <1>6 DEF Receive, PollTimesOut, PollWithoutSock, Disconnect, order
  <2>2. tk'.at # "cmd" BY <2>1, PollGoesOn, Callbacks DEF IInv
  <2> QED BY <2>1, <2>2, ProgressOutside
<1>7. ASSUME NEW i \in 1..3, PollFires(i) PROVE Progress'
  BY <1>7, ProgressOutside, Callbacks DEF PollFires, order, simVars
<1>8. ASSUME NEW steps \in MoveSequences \cup SingleCommands, ClickCommand(steps) PROVE Progress' BY <1>8, CommandProgress
<1>9. CASE CommandAcked BY <1>9, AckedProgress
<1>10. CASE CommandTimesOut \/ CommandWithoutSock
  BY <1>10, ProgressOutside, Callbacks DEF CommandTimesOut, CommandWithoutSock, CommandFails, simVars
<1>11. CASE ClickFire \/ SenderWakes \/ SenderSends \/ SenderFails \/ SenderTells \/ QueuedStop
  <2>1. UNCHANGED <<tcp, tk, simVars, order>>
    BY <1>11 DEF ClickFire, SenderWakes, SenderSends, SenderFails, SenderTells, QueuedStop
  <2> QED BY <2>1, ProgressStays DEF tcp, simVars, order
<1>12. CASE CloseWindow
  BY <1>12, ProgressOutside, Callbacks DEF CloseWindow, Click, Ready, order
<1>13. ASSUME NEW c \in Conns, Server(c) PROVE Progress' BY <1>13, ServerProgress
<1>14. CASE Physics BY <1>14, ProgressStays DEF Physics, Update, clientVars, tcp, order
<1>15. CASE UNCHANGED vars BY <1>15, ProgressStays DEF vars, clientVars, tcp, simVars, order
<1> QED BY <1>1, <1>2, <1>3, <1>4, <1>5, <1>6, <1>7, <1>8, <1>9, <1>10, <1>11, <1>12, <1>13, <1>14,
           <1>15 DEF Next

(* A gauge changes with the answer to its own question alone, and what     *)
(* disconnects the window blanks them all.                                 *)
LEMMA GaugedPreserved == ASSUME IInv, [Next]_vars PROVE Gauged'
<1>1. ASSUME Disconnect PROVE Gauged'
  BY <1>1 DEF Disconnect, Gauged, ShownIsOurs, Blank, Gauge, Range
<1>2. ASSUME UNCHANGED <<connected, shown>> PROVE Gauged'
  BY <1>2 DEF IInv, Gauged, ShownIsOurs
<1>3. CASE ClickConnect \/ CloseBox \/ PollTimesOut \/ PollWithoutSock
  <2>1. Disconnect \/ UNCHANGED <<connected, shown>>
    BY <1>3 DEF ClickConnect, CloseBox, PollTimesOut, PollWithoutSock, ToggleConnection, Greet, Refused,
                poll
  <2> QED BY <1>1, <1>2, <2>1
<1>4. CASE Connected BY <1>4 DEF Connected, IInv, Gauged, ShownIsOurs
<1>5. ASSUME NEW n \in 1..3, Receive(n) PROVE Gauged'
  <2>1. connected /\ connected' = connected BY <1>5 DEF Receive, IInv, OnePoll
  <2>2. shown' = shown \/ shown' = [shown EXCEPT ![Gauges[tk.k]] = Gauges[tk.k]]
    BY <1>5, ReceiveExchange
  <2> QED BY <2>1, <2>2 DEF IInv, Gauged, ShownIsOurs
<1>6. CASE ConnectFails \/ Send \/ (\E i \in 1..3 : PollFires(i))
           \/ (\E steps \in MoveSequences \cup SingleCommands : ClickCommand(steps))
           \/ CommandAcked \/ CommandTimesOut \/ CommandWithoutSock
           \/ ClickFire \/ SenderWakes \/ SenderSends \/ SenderFails \/ SenderTells \/ QueuedStop \/ CloseWindow
           \/ (\E c \in Conns : Server(c)) \/ Physics \/ UNCHANGED vars
  <2>1. UNCHANGED <<connected, shown>>
    BY <1>6 DEF ConnectFails, Send, PollFires, ClickCommand, CommandAcked, CommandTimesOut,
       CommandWithoutSock, ClickFire, SenderWakes, SenderSends, SenderFails, SenderTells, QueuedStop, CloseWindow,
       Server, Physics, clientVars, vars, poll
  <2> QED BY <1>2, <2>1
<1> QED BY <1>3, <1>4, <1>5, <1>6 DEF Next

(* The invariant holds of the window, its connections and the server, and  *)
(* every step of any of them keeps it.                                     *)
THEOREM Inductive == Spec => []IInv
<1>1. IInv /\ [Next]_vars => IInv'
  BY CallbackPreserved, OnePollPreserved, ButtonPreserved, ExchangePreserved, ProgressPreserved,
     GaugedPreserved DEF IInv
<1> QED BY <1>1, InitEstablishes, PTL DEF Spec

(* start_polling, stop_polling and poll_for_status: however connects,      *)
(* disconnects, failures and message boxes interleave, no second poll is   *)
(* ever set and a connected window at rest keeps the one it needs.         *)
THEOREM PollsAlways == Spec => []PollingAlive
<1>1. IInv => PollingAlive
  <2> SUFFICES ASSUME IInv PROVE PollingAlive OBVIOUS
  <2>1. scheduled = {} \/ scheduled = {job} BY DEF IInv, OnePoll
  <2>2. Cardinality({}) = 0 /\ Cardinality({job}) = 1 BY FS_EmptySet, FS_Singleton
  <2>3. connected /\ tk = Idle /\ ~closed => scheduled = {job} BY Callbacks DEF IInv, OnePoll
  <2> QED BY <2>1, <2>2, <2>3 DEF PollingAlive
<1> QED BY <1>1, Inductive, PTL

(* UDPFireClient: whatever thread fails at whatever moment, and however    *)
(* the operator stops, starts and disconnects around it, the flag is never *)
(* set under a START button, and a STOP button without the flag is still   *)
(* to be corrected.                                                        *)
THEOREM ButtonsTell == Spec => []ButtonTruthful
<1>1. IInv => ButtonTruthful
  <2> SUFFICES ASSUME IInv PROVE ButtonTruthful OBVIOUS
  <2>1. Told => failing + stops > 0 BY DEF IInv, Button, Told
  <2>2. "START" # "STOP" OBVIOUS
  <2> QED BY <2>1, <2>2 DEF IInv, Button, ButtonTruthful
<1> QED BY <1>1, Inductive, PTL

(* send_move_command: the steps of the last command were run in order,     *)
(* none twice, and all of them when the window says that it was sent.      *)
THEOREM MovesAreTold == Spec => []MoveTold
<1>1. IInv => MoveTold
  <2> SUFFICES ASSUME IInv PROVE MoveTold OBVIOUS
  <2>1. ran \in Seq(Nat) /\ \A i \in 1..Len(ran) : ran[i] = i BY DEF IInv, Progress
  <2>2. DOMAIN ran = 1..Len(ran) BY <2>1
  <2> QED BY <2>1, <2>2 DEF IInv, Progress, MoveTold
<1> QED BY <1>1, Inductive, PTL

(* request_data: whatever was given up before, in whatever part of its     *)
(* reply, and although the buffer outlives the connection, the packet that *)
(* a poll takes is the answer to what it asked.                            *)
THEOREM GaugesShowTheirs == Spec => []ShownIsOurs
<1>1. IInv => ShownIsOurs BY DEF IInv, Gauged
<1> QED BY <1>1, Inductive, PTL
=============================================================================
