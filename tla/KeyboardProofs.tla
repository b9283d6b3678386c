--------------------------- MODULE KeyboardProofs ---------------------------
(***************************************************************************)
(* Proofs about Keyboard, for rings of any size, any number of consoles    *)
(* and any sets of keys: kb_in is a bounded queue between the interrupt    *)
(* handler and task_tty, the modifier keys of an idle decoder are those    *)
(* held down, and what a console shows follows what was typed to it.       *)
(***************************************************************************)
EXTENDS Keyboard, SequenceTheorems, TLAPS

-----------------------------------------------------------------------------
(* Scan codes                                                              *)

\* What a key may send.
Codes == UNION {{Make[k], Break(k)} : k \in DOMAIN Make}

LEMMA MakeIs ==
    /\ DOMAIN Make = {"SHIFT_L", "SHIFT_R", "CTRL_L", "ALT_L", "CTRL_R", "ALT_R", "A",
                      "ENTER", "F1", "F2", "PRINTSCREEN", "PAUSEBREAK"}
    /\ Make["SHIFT_L"] = <<42>> /\ Make["SHIFT_R"] = <<54>> /\ Make["CTRL_L"] = <<29>>
    /\ Make["ALT_L"] = <<56>> /\ Make["CTRL_R"] = <<224, 29>> /\ Make["ALT_R"] = <<224, 56>>
    /\ Make["A"] = <<30>> /\ Make["ENTER"] = <<28>> /\ Make["F1"] = <<59>>
    /\ Make["F2"] = <<60>> /\ Make["PRINTSCREEN"] = <<224, 42, 224, 55>>
    /\ Make["PAUSEBREAK"] = <<225, 29, 69, 225, 157, 197>>
BY DEF Make

LEMMA BreakIs ==
    /\ Break("SHIFT_L") = <<170>> /\ Break("SHIFT_R") = <<182>> /\ Break("CTRL_L") = <<157>>
    /\ Break("ALT_L") = <<184>> /\ Break("CTRL_R") = <<224, 157>>
    /\ Break("ALT_R") = <<224, 184>>
    /\ Break("A") = <<158>> /\ Break("ENTER") = <<156>> /\ Break("F1") = <<187>>
    /\ Break("F2") = <<188>> /\ Break("PRINTSCREEN") = <<224, 183, 224, 170>>
    /\ Break("PAUSEBREAK") = <<>>
<1> DEFINE up(s) == [i \in DOMAIN s |-> IF s[i] = 224 THEN 224 ELSE s[i] + 128]
<1>1. \A k \in DOMAIN Make \ {"PRINTSCREEN", "PAUSEBREAK"} : Break(k) = up(Make[k])
  BY DEF Break
<1>2. ASSUME NEW a \in Int, a # 224 PROVE up(<<a>>) = <<a + 128>>
  BY <1>2
<1>3. ASSUME NEW a \in Int, a # 224 PROVE up(<<224, a>>) = <<224, a + 128>>
  BY <1>3
<1> HIDE DEF up
<1>4. /\ up(<<42>>) = <<170>> /\ up(<<54>>) = <<182>> /\ up(<<29>>) = <<157>>
      /\ up(<<56>>) = <<184>> /\ up(<<30>>) = <<158>> /\ up(<<28>>) = <<156>>
      /\ up(<<59>>) = <<187>> /\ up(<<60>>) = <<188>>
  BY <1>2
<1>5. up(<<224, 29>>) = <<224, 157>> /\ up(<<224, 56>>) = <<224, 184>>
  BY <1>3
<1>6. Break("PRINTSCREEN") = <<224, 183, 224, 170>> /\ Break("PAUSEBREAK") = <<>>
  BY DEF Break
<1>7. /\ Break("SHIFT_L") = up(<<42>>) /\ Break("SHIFT_R") = up(<<54>>)
      /\ Break("CTRL_L") = up(<<29>>) /\ Break("ALT_L") = up(<<56>>)
      /\ Break("CTRL_R") = up(<<224, 29>>) /\ Break("ALT_R") = up(<<224, 56>>)
      /\ Break("A") = up(<<30>>) /\ Break("ENTER") = up(<<28>>)
      /\ Break("F1") = up(<<59>>) /\ Break("F2") = up(<<60>>)
  BY <1>1, MakeIs
<1> QED
  BY <1>4, <1>5, <1>6, <1>7

LEMMA CodesAreBytes == Codes \subseteq Seq(Bytes) /\ Codes \subseteq Seq(0 .. 255)
<1>1. \A k \in DOMAIN Make : Make[k] \in Seq(0 .. 255) /\ Break(k) \in Seq(0 .. 255)
  <2> DEFINE B == 0 .. 255
  <2>1. /\ 42 \in B /\ 54 \in B /\ 29 \in B /\ 56 \in B /\ 30 \in B /\ 28 \in B
        /\ 59 \in B /\ 60 \in B /\ 170 \in B /\ 182 \in B /\ 157 \in B /\ 184 \in B
        /\ 158 \in B /\ 156 \in B /\ 187 \in B /\ 188 \in B /\ 224 \in B /\ 55 \in B
        /\ 183 \in B /\ 225 \in B /\ 69 \in B /\ 197 \in B
    OBVIOUS
  <2> HIDE DEF B
  <2>2. \A a \in B : <<a>> \in Seq(B)
    OBVIOUS
  <2>3. \A a \in B : \A b \in B : <<a, b>> \in Seq(B)
    OBVIOUS
  <2>4. \A a \in B : \A b \in B : \A c \in B : \A d \in B : <<a, b, c, d>> \in Seq(B)
    OBVIOUS
  <2>5. <<225, 29, 69, 225, 157, 197>> \in Seq(B) /\ <<>> \in Seq(B)
    BY <2>1
  <2>6. \A k \in {"SHIFT_L", "SHIFT_R", "CTRL_L", "ALT_L", "A", "ENTER", "F1", "F2"} :
           Make[k] \in Seq(B) /\ Break(k) \in Seq(B)
    <3>1. /\ \A k \in {"SHIFT_L", "SHIFT_R", "CTRL_L", "ALT_L"} : \E n, m \in B :
                Make[k] = <<n>> /\ Break(k) = <<m>>
          /\ \A k \in {"A", "ENTER", "F1", "F2"} : \E n, m \in B :
                Make[k] = <<n>> /\ Break(k) = <<m>>
      BY <2>1, MakeIs, BreakIs
    <3>2. \A k : (\E n, m \in B : Make[k] = <<n>> /\ Break(k) = <<m>>)
                   => Make[k] \in Seq(B) /\ Break(k) \in Seq(B)
      BY <2>2
    <3> QED
      BY <3>1, <3>2
  <2>7. /\ Make["CTRL_R"] \in Seq(B) /\ Break("CTRL_R") \in Seq(B)
        /\ Make["ALT_R"] \in Seq(B) /\ Break("ALT_R") \in Seq(B)
    <3>1. \A s : (\E a \in B : \E b \in B : s = <<a, b>>) => s \in Seq(B)
      BY <2>3
    <3>2. /\ \E a \in B : \E b \in B : Make["CTRL_R"] = <<a, b>>
          /\ \E a \in B : \E b \in B : Make["ALT_R"] = <<a, b>>
      BY <2>1, MakeIs
    <3>3. /\ \E a \in B : \E b \in B : Break("CTRL_R") = <<a, b>>
          /\ \E a \in B : \E b \in B : Break("ALT_R") = <<a, b>>
      BY <2>1, BreakIs
    <3> QED
      BY <3>1, <3>2, <3>3
  <2>8. Make["PRINTSCREEN"] \in Seq(B) /\ Break("PRINTSCREEN") \in Seq(B)
    <3>1. <<224, 42, 224, 55>> \in Seq(B) /\ <<224, 183, 224, 170>> \in Seq(B)
      BY <2>1, <2>4
    <3> QED
      BY <3>1, MakeIs, BreakIs
  <2>9. Make["PAUSEBREAK"] \in Seq(B) /\ Break("PAUSEBREAK") \in Seq(B)
    BY <2>5, MakeIs, BreakIs
  <2>10. \A k \in {"CTRL_R", "ALT_R", "PRINTSCREEN", "PAUSEBREAK"} :
            Make[k] \in Seq(B) /\ Break(k) \in Seq(B)
    BY <2>7, <2>8, <2>9
  <2>11. \A k \in DOMAIN Make : k \in {"SHIFT_L", "SHIFT_R", "CTRL_L", "ALT_L", "A", "ENTER",
                                       "F1", "F2"}
                                \/ k \in {"CTRL_R", "ALT_R", "PRINTSCREEN", "PAUSEBREAK"}
    BY MakeIs
  <2> QED
    BY <2>6, <2>10, <2>11 DEF B
<1>2. Codes \subseteq Seq(0 .. 255)
  BY <1>1 DEF Codes
<1>3. \A s \in Codes : \A i \in DOMAIN s : s[i] \in Bytes
  BY DEF Codes, Bytes
<1>4. ASSUME NEW s \in Codes PROVE s \in Seq(Bytes)
  <2>1. s \in Seq(0 .. 255) /\ DOMAIN s = 1 .. Len(s) /\ Len(s) \in Nat
    BY <1>2
  <2>2. s = [i \in 1 .. Len(s) |-> s[i]]
    BY <2>1
  <2>3. \A i \in 1 .. Len(s) : s[i] \in Bytes
    BY <1>3, <2>1
  <2> QED
    BY <2>1, <2>2, <2>3
<1> QED
  BY <1>2, <1>4

-----------------------------------------------------------------------------
(* The ring kb_in                                                          *)

LEMMA DivMod == ASSUME NEW a \in Nat, NEW w \in Nat \ {0}
                PROVE  /\ a \div w \in Nat /\ a % w \in 0 .. w - 1
                       /\ a = w * (a \div w) + (a % w)
BY SMT

\* A place of the ring, counted from one of its pointers.
LEMMA Around == ASSUME NEW w \in Nat \ {0}, NEW a \in 0 .. w - 1, NEW b \in 0 .. w
                PROVE  (a + b) % w = IF a + b < w THEN a + b ELSE a + b - w
<1> DEFINE c == a + b  q == c \div w  m == c % w
<1>1. c \in Nat /\ c < 2 * w /\ q \in Nat /\ m \in 0 .. w - 1 /\ c = w * q + m
  BY DivMod
<1> HIDE DEF c, q, m
<1>2. q = 0 \/ q = 1 \/ q >= 2
  BY <1>1
<1>3. ~(q >= 2)
  <2>1. q >= 2 => w * q >= w * 2
    BY <1>1, SMT
  <2> QED
    BY <1>1, <2>1
<1>4. q = 0 => c = m
  BY <1>1
<1>5. q = 1 => c = w + m
  BY <1>1
<1> QED
  BY <1>1, <1>2, <1>3, <1>4, <1>5 DEF c, m

Taken == IF taking = -1 THEN 0 ELSE 1
Live  == kb_in.count - Taken

\* The scan codes in kb_in that no one has read yet.
Waiting == [i \in 1 .. Live |-> kb_in.buf[(kb_in.tail + i - 1) % KB_IN_BYTES]]

RingInv ==
    /\ kb_in \in [buf : [0 .. KB_IN_BYTES - 1 -> Bytes \cup {NoByte}],
                  head : 0 .. KB_IN_BYTES - 1, tail : 0 .. KB_IN_BYTES - 1,
                  count : 0 .. KB_IN_BYTES]
    /\ taking \in {-1, kb_in.count} /\ taking # 0
    /\ kb_in.head = (kb_in.tail + Live) % KB_IN_BYTES
    /\ Waiting \in Seq(Bytes)
    /\ wire \in Seq(Bytes)

LEMMA RingInit == Init => RingInv /\ Waiting = <<>>
<1> SUFFICES ASSUME Init PROVE RingInv /\ Waiting = <<>>
  OBVIOUS
<1>1. KB_IN_BYTES \in Nat \ {0} /\ -1 # 0
  BY KeyboardAssumption
<1>2. /\ kb_in = [buf |-> [i \in 0 .. KB_IN_BYTES - 1 |-> NoByte],
                  head |-> 0, tail |-> 0, count |-> 0]
      /\ taking = -1 /\ wire = <<>>
  BY DEF Init, Ring
<1>3. Live = 0 /\ Waiting = <<>>
  BY <1>2 DEF Live, Taken, Waiting
<1>4. (0 + 0) % KB_IN_BYTES = 0
  BY <1>1, Around
<1> QED
  BY <1>1, <1>2, <1>3, <1>4 DEF RingInv

\* The handler puts the next byte behind those that wait, if there is room.
LEMMA RingPut ==
    ASSUME RingInv, KeyboardHandler, HasRoom(kb_in, KB_IN_BYTES)
    PROVE  RingInv' /\ Head(wire) \in Bytes /\ Waiting' = Append(Waiting, Head(wire))
<1> DEFINE N == KB_IN_BYTES  x == Head(wire)  t == kb_in.tail  c == kb_in.count
<1>1. /\ taking = -1 /\ taking' = -1 /\ x \in Bytes /\ wire' \in Seq(Bytes) /\ c < N
      /\ kb_in' = [kb_in EXCEPT !.buf[kb_in.head] = x, !.head = Wrap(@ + 1, N), !.count = @ + 1]
  BY HeadTailProperties DEF KeyboardHandler, RingInv, HasRoom, PutIn, InterruptsOn
<1>2. /\ N \in Nat \ {0} /\ t \in 0 .. N - 1 /\ c \in 0 .. N - 1 /\ kb_in.head = (t + c) % N
      /\ kb_in.head \in 0 .. N - 1
      /\ kb_in.buf \in [0 .. N - 1 -> Bytes \cup {NoByte}]
      /\ Live = c /\ Waiting \in Seq(Bytes)
      /\ c \in 0 .. N /\ c \in Nat /\ t \in Nat
  BY <1>1, KeyboardAssumption DEF RingInv, Live, Taken
<1>3. /\ kb_in'.buf = [kb_in.buf EXCEPT ![kb_in.head] = x]
      /\ kb_in'.head = Wrap(kb_in.head + 1, N) /\ kb_in'.tail = t /\ kb_in'.count = c + 1
      /\ kb_in' = [buf |-> kb_in'.buf, head |-> kb_in'.head, tail |-> t, count |-> c + 1]
      /\ Live' = c + 1
  <2>1. kb_in = [buf |-> kb_in.buf, head |-> kb_in.head, tail |-> t, count |-> c]
    BY DEF RingInv
  <2>2. /\ kb_in'.buf = [kb_in.buf EXCEPT ![kb_in.head] = x]
        /\ kb_in'.head = Wrap(kb_in.head + 1, N) /\ kb_in'.tail = t /\ kb_in'.count = c + 1
        /\ kb_in' = [buf |-> kb_in'.buf, head |-> kb_in'.head, tail |-> t, count |-> c + 1]
    BY <1>1, <2>1
  <2> QED
    BY <1>1, <1>2, <2>2 DEF Live, Taken
<1> HIDE DEF N, x, t, c
<1>4. (t + (c + 1)) % N = Wrap(((t + c) % N) + 1, N)
  <2>1. (t + c) % N = IF t + c < N THEN t + c ELSE t + c - N
    BY <1>2, Around
  <2>2. (t + (c + 1)) % N = IF t + (c + 1) < N THEN t + (c + 1) ELSE t + (c + 1) - N
    <3>1. c + 1 \in 0 .. N
      BY <1>2
    <3> QED
      BY <1>2, <3>1, Around
  <2> QED
    BY <1>2, <2>1, <2>2 DEF Wrap
<1>5. \A i \in 1 .. c : (t + i - 1) % N # (t + c) % N /\ (t + i - 1) % N \in 0 .. N - 1
  <2> TAKE i \in 1 .. c
  <2>1. i - 1 \in 0 .. N /\ t + (i - 1) = t + i - 1
    BY <1>2
  <2>2. (t + i - 1) % N = IF t + i - 1 < N THEN t + i - 1 ELSE t + i - 1 - N
    BY <1>2, <2>1, Around
  <2>3. (t + c) % N = IF t + c < N THEN t + c ELSE t + c - N
    BY <1>2, Around
  <2> QED
    BY <1>2, <2>2, <2>3
<1>6. /\ Waiting = [i \in 1 .. c |-> kb_in.buf[(t + i - 1) % N]]
      /\ Waiting' = [i \in 1 .. c + 1 |-> kb_in'.buf[(t + i - 1) % N]]
  BY <1>2, <1>3 DEF Waiting, t, N
<1>7. Waiting' = Append(Waiting, x)
  <2>1. Len(Waiting) = c /\ Append(Waiting, x) \in Seq(Bytes) /\ Len(Append(Waiting, x)) = c + 1
        /\ \A i \in 1 .. c : Append(Waiting, x)[i] = Waiting[i]
        /\ Append(Waiting, x)[c + 1] = x
    <3>1. Len(Waiting) = c
      BY <1>2, <1>6
    <3> QED
      BY <1>1, <1>2, <3>1, AppendProperties
  <2>2. \A i \in 1 .. c : Waiting'[i] = Waiting[i]
    <3> TAKE i \in 1 .. c
    <3> DEFINE at(j) == (t + j - 1) % N
    <3>0. /\ Waiting = [j \in 1 .. c |-> kb_in.buf[at(j)]]
          /\ Waiting' = [j \in 1 .. c + 1 |-> kb_in'.buf[at(j)]]
      BY <1>6
    <3> HIDE DEF at
    <3>1. Waiting'[i] = kb_in'.buf[at(i)] /\ Waiting[i] = kb_in.buf[at(i)]
      <4>1. i \in 1 .. c + 1
        BY <1>2
      <4> QED
        BY <3>0, <4>1
    <3>2. (t + i - 1) % N # kb_in.head /\ (t + i - 1) % N \in 0 .. N - 1
      BY <1>2, <1>5
    <3> QED
      BY <1>2, <1>3, <3>1, <3>2 DEF at
  <2>3. Waiting'[c + 1] = x
    <3>1. t + (c + 1) - 1 = t + c /\ c + 1 \in 1 .. c + 1
      BY <1>2
    <3> QED
      BY <1>2, <1>3, <1>6, <3>1
  <2>4. Append(Waiting, x) = [i \in 1 .. c + 1 |-> Append(Waiting, x)[i]]
    <3> DEFINE a == Append(Waiting, x)
    <3>1. a \in Seq(Bytes) /\ Len(a) = c + 1
      BY <2>1
    <3> HIDE DEF a
    <3>2. a = [i \in 1 .. Len(a) |-> a[i]]
      BY <3>1
    <3> QED
      BY <3>1, <3>2 DEF a
  <2>5. \A i \in 1 .. c + 1 : Waiting'[i] = Append(Waiting, x)[i]
    BY <1>2, <2>1, <2>2, <2>3
  <2> QED
    BY <1>6, <2>4, <2>5
<1>8. Waiting' \in Seq(Bytes)
  BY <1>1, <1>2, <1>7, AppendProperties
<1>9. kb_in'.buf \in [0 .. N - 1 -> Bytes \cup {NoByte}] /\ kb_in'.head \in 0 .. N - 1
      /\ c + 1 \in 0 .. N /\ c + 1 # 0 /\ -1 # 0
  <2>1. Wrap(kb_in.head + 1, N) \in 0 .. N - 1
    BY <1>2 DEF Wrap
  <2> QED
    BY <1>1, <1>2, <1>3, <2>1
<1>10. RingInv'
  <2>1. kb_in' \in [buf : [0 .. N - 1 -> Bytes \cup {NoByte}], head : 0 .. N - 1,
                    tail : 0 .. N - 1, count : 0 .. N]
    BY <1>2, <1>3, <1>9
  <2>2. kb_in'.head = (kb_in'.tail + Live') % N
    BY <1>2, <1>3, <1>4
  <2> QED
    BY <1>1, <1>8, <1>9, <2>1, <2>2 DEF RingInv, N
<1> QED
  BY <1>1, <1>7, <1>10 DEF x

\* task_tty takes the byte that has waited longest.
LEMMA RingTake ==
    ASSUME RingInv, TakeByte
    PROVE  /\ RingInv' /\ Waiting # <<>> /\ Waiting' = Tail(Waiting)
           /\ got' = Append(got, Head(Waiting)) /\ wire' = wire
<1> DEFINE N == KB_IN_BYTES  t == kb_in.tail  c == kb_in.count
           at(j) == (t + j - 1) % N
<1>1. /\ taking = -1 /\ taking' = c /\ c >= 1 /\ wire' = wire
      /\ kb_in' = [kb_in EXCEPT !.buf[kb_in.tail] = NoByte, !.tail = Wrap(@ + 1, N)]
      /\ got' = Append(got, kb_in.buf[t])
  BY DEF TakeByte, Advanced, user
<1>2. /\ N \in Nat \ {0} /\ t \in 0 .. N - 1 /\ c \in 1 .. N /\ kb_in.head = (t + c) % N
      /\ kb_in.head \in 0 .. N - 1 /\ t \in Nat /\ c \in Nat /\ c \in 0 .. N
      /\ kb_in.buf \in [0 .. N - 1 -> Bytes \cup {NoByte}]
      /\ Live = c /\ Waiting \in Seq(Bytes) /\ Taken' = 1
  BY <1>1, KeyboardAssumption DEF RingInv, Live, Taken
<1>3. /\ kb_in'.buf = [kb_in.buf EXCEPT ![t] = NoByte]
      /\ kb_in'.head = kb_in.head /\ kb_in'.tail = Wrap(t + 1, N) /\ kb_in'.count = c
      /\ kb_in' = [buf |-> kb_in'.buf, head |-> kb_in.head, tail |-> kb_in'.tail, count |-> c]
      /\ Live' = c - 1
  <2>1. kb_in = [buf |-> kb_in.buf, head |-> kb_in.head, tail |-> t, count |-> c]
    BY DEF RingInv
  <2>2. /\ kb_in'.buf = [kb_in.buf EXCEPT ![t] = NoByte]
        /\ kb_in'.head = kb_in.head /\ kb_in'.tail = Wrap(t + 1, N) /\ kb_in'.count = c
        /\ kb_in' = [buf |-> kb_in'.buf, head |-> kb_in.head, tail |-> kb_in'.tail, count |-> c]
    BY <1>1, <2>1
  <2> QED
    BY <1>1, <1>2, <2>2 DEF Live
<1> DEFINE u == kb_in'.tail
<1>4. /\ Waiting = [j \in 1 .. c |-> kb_in.buf[at(j)]]
      /\ Waiting' = [j \in 1 .. c - 1 |-> kb_in'.buf[(u + j - 1) % N]]
  BY <1>2, <1>3 DEF Waiting
<1>t. /\ kb_in'.buf = [kb_in.buf EXCEPT ![t] = NoByte]
      /\ u = Wrap(t + 1, N)
  BY <1>3
<1> HIDE DEF N, t, c, u
<1>5. u \in 0 .. N - 1 /\ u \in Nat
  BY <1>2, <1>t DEF Wrap
<1>6. ASSUME NEW j \in 1 .. c - 1
      PROVE  (u + j - 1) % N = at(j + 1) /\ at(j + 1) # t /\ at(j + 1) \in 0 .. N - 1
  <2>1. j \in 0 .. N /\ j - 1 \in 0 .. N /\ t + (j + 1) - 1 = t + j /\ u + j - 1 = u + (j - 1)
        /\ j \in Nat /\ j >= 1 /\ j < N
    BY <1>2, <1>5
  <2>2. (t + j) % N = IF t + j < N THEN t + j ELSE t + j - N
    BY <1>2, <2>1, Around
  <2>3. (u + (j - 1)) % N = IF u + (j - 1) < N THEN u + (j - 1) ELSE u + (j - 1) - N
    BY <1>2, <1>5, <2>1, Around
  <2>4. at(j + 1) = (t + j) % N /\ (u + j - 1) % N = (u + (j - 1)) % N
    BY <2>1
  <2> HIDE DEF at
  <2>5. u = IF t + 1 = N THEN 0 ELSE t + 1
    BY <1>t DEF Wrap
  <2>6. (u + (j - 1)) % N = (t + j) % N
    BY <1>2, <2>1, <2>2, <2>3, <2>5
  <2>7. (t + j) % N # t /\ (t + j) % N \in 0 .. N - 1
    BY <1>2, <2>1, <2>2
  <2> QED
    BY <2>4, <2>6, <2>7
<1>7. at(1) = t /\ t + 1 - 1 = t
  <2>1. 0 \in 0 .. N /\ t + 1 - 1 = t + 0 /\ t + 0 = t
    BY <1>2
  <2>2. (t + 0) % N = IF t + 0 < N THEN t + 0 ELSE t + 0 - N
    BY <1>2, <2>1, Around
  <2>3. t + 0 < N
    BY <1>2
  <2>4. (t + 0) % N = t
    BY <2>1, <2>2, <2>3
  <2>5. at(1) = (t + 0) % N
    BY <2>1
  <2> HIDE DEF at
  <2> QED
    BY <2>1, <2>4, <2>5
<1> HIDE DEF at
<1>8. Len(Waiting) = c /\ Waiting # <<>> /\ Head(Waiting) = kb_in.buf[t]
  <2>1. Len(Waiting) = c
    BY <1>2, <1>4
  <2>2. Waiting # <<>>
    BY <1>2, <2>1
  <2>3. Waiting[1] = kb_in.buf[at(1)]
    BY <1>2, <1>4
  <2> QED
    BY <1>2, <1>7, <2>1, <2>2, <2>3
<1>9. Waiting' = Tail(Waiting)
  <2> DEFINE a == Tail(Waiting)
  <2>1. a \in Seq(Bytes) /\ Len(a) = c - 1 /\ \A j \in 1 .. c - 1 : a[j] = Waiting[j + 1]
    BY <1>2, <1>8, HeadTailProperties
  <2> HIDE DEF a
  <2>2. a = [j \in 1 .. c - 1 |-> a[j]]
    <3>1. a = [j \in 1 .. Len(a) |-> a[j]]
      BY <2>1
    <3> QED
      BY <2>1, <3>1
  <2>3. \A j \in 1 .. c - 1 : a[j] = kb_in.buf[at(j + 1)]
    <3>1. \A j \in 1 .. c - 1 : j + 1 \in 1 .. c
      BY <1>2
    <3> QED
      BY <1>4, <2>1, <3>1
  <2>4. \A j \in 1 .. c - 1 : kb_in'.buf[(u + j - 1) % N] = kb_in.buf[at(j + 1)]
    <3> TAKE j \in 1 .. c - 1
    <3>1. kb_in'.buf[at(j + 1)] = kb_in.buf[at(j + 1)]
      BY <1>2, <1>t, <1>6
    <3> QED
      BY <1>6, <3>1
  <2>5. Waiting' = [j \in 1 .. c - 1 |-> a[j]]
    <3> DEFINE e(j) == kb_in'.buf[(u + j - 1) % N]
    <3>1. Waiting' = [j \in 1 .. c - 1 |-> e(j)] /\ \A j \in 1 .. c - 1 : e(j) = a[j]
      BY <1>4, <2>3, <2>4
    <3> HIDE DEF e
    <3> QED
      BY <3>1
  <2> QED
    BY <2>2, <2>5 DEF a
<1>10. RingInv'
  <2>1. kb_in'.buf \in [0 .. N - 1 -> Bytes \cup {NoByte}]
    BY <1>2, <1>t
  <2>2. kb_in' \in [buf : [0 .. N - 1 -> Bytes \cup {NoByte}], head : 0 .. N - 1,
                    tail : 0 .. N - 1, count : 0 .. N]
    BY <1>2, <1>3, <1>5, <2>1 DEF u, c
  <2>3. (t + c) % N = (u + (c - 1)) % N
    <3>1. c - 1 \in 0 .. N
      BY <1>2
    <3>2. (t + c) % N = IF t + c < N THEN t + c ELSE t + c - N
      BY <1>2, Around
    <3>3. (u + (c - 1)) % N = IF u + (c - 1) < N THEN u + (c - 1) ELSE u + (c - 1) - N
      BY <1>2, <1>5, <3>1, Around
    <3>4. u = IF t + 1 = N THEN 0 ELSE t + 1
      BY <1>t DEF Wrap
    <3> QED
      BY <1>2, <3>2, <3>3, <3>4
  <2>4. kb_in'.head = (kb_in'.tail + Live') % N
    BY <1>2, <1>3, <2>3 DEF u, c, t
  <2>5. Waiting' \in Seq(Bytes) /\ wire' \in Seq(Bytes)
    BY <1>1, <1>2, <1>8, <1>9, HeadTailProperties DEF RingInv
  <2>6. taking' \in {-1, kb_in'.count} /\ taking' # 0
    BY <1>1, <1>2, <1>3 DEF c
  <2> QED
    BY <2>2, <2>4, <2>5, <2>6 DEF RingInv, N
<1> QED
  BY <1>1, <1>8, <1>9, <1>10 DEF t

\* Writing the decremented count back finishes what TakeByte began.
LEMMA RingTaken ==
    ASSUME RingInv, TakenByte
    PROVE  RingInv' /\ Waiting' = Waiting /\ got' = got /\ wire' = wire
<1>1. /\ taking # -1 /\ taking' = -1 /\ got' = got /\ wire' = wire
      /\ kb_in' = [kb_in EXCEPT !.count = taking - 1] /\ taking = kb_in.count
      /\ kb_in.count \in 0 .. KB_IN_BYTES /\ kb_in.count # 0 /\ KB_IN_BYTES \in Nat \ {0}
  BY KeyboardAssumption DEF TakenByte, task, user, RingInv
<1>2. kb_in = [buf |-> kb_in.buf, head |-> kb_in.head, tail |-> kb_in.tail,
               count |-> kb_in.count]
  BY DEF RingInv
<1>3. kb_in' = [buf |-> kb_in.buf, head |-> kb_in.head, tail |-> kb_in.tail,
                count |-> kb_in.count - 1]
  BY <1>1, <1>2
<1>4. Live' = Live
  BY <1>1, <1>3 DEF Live, Taken
<1>5. Waiting' = Waiting
  BY <1>3, <1>4 DEF Waiting
<1>6. kb_in.count - 1 \in 0 .. KB_IN_BYTES
  BY <1>1
<1>7. kb_in' \in [buf : [0 .. KB_IN_BYTES - 1 -> Bytes \cup {NoByte}],
                  head : 0 .. KB_IN_BYTES - 1, tail : 0 .. KB_IN_BYTES - 1,
                  count : 0 .. KB_IN_BYTES]
  BY <1>3, <1>6 DEF RingInv
<1>8. kb_in'.head = (kb_in'.tail + Live') % KB_IN_BYTES
  BY <1>3, <1>4 DEF RingInv
<1>9. /\ Waiting' \in Seq(Bytes) /\ wire' \in Seq(Bytes)
      /\ taking' \in {-1, kb_in'.count} /\ taking' # 0
  <2>1. Waiting \in Seq(Bytes) /\ wire \in Seq(Bytes)
    BY DEF RingInv
  <2> QED
    BY <1>1, <1>5, <2>1
<1>10. RingInv'
  BY <1>7, <1>8, <1>9 DEF RingInv
<1> QED
  BY <1>1, <1>5, <1>10

LEMMA RingFrame ==
    ASSUME RingInv, UNCHANGED <<kb_in, taking>>
    PROVE  Waiting' = Waiting /\ (wire' \in Seq(Bytes) => RingInv')
BY DEF RingInv, Waiting, Live, Taken

\* What every step does to kb_in, to what waits in it and to what is still to be
\* sent.
LEMMA RingStep ==
    ASSUME RingInv, [Next]_vars
    PROVE  /\ RingInv'
           /\ \/ KeyboardHandler /\ HasRoom(kb_in, KB_IN_BYTES)
                 /\ Head(wire) \in Bytes /\ Waiting' = Append(Waiting, Head(wire))
              \/ TakeByte /\ Waiting # <<>> /\ Waiting' = Tail(Waiting)
              \/ Waiting' = Waiting
<1>1. CASE KeyboardHandler
  <2>1. CASE HasRoom(kb_in, KB_IN_BYTES)
    BY <1>1, <2>1, RingPut
  <2>2. CASE ~HasRoom(kb_in, KB_IN_BYTES)
    <3>1. UNCHANGED <<kb_in, taking>> /\ wire' \in Seq(Bytes)
      BY <1>1, <2>2, HeadTailProperties DEF KeyboardHandler, PutIn, RingInv
    <3> QED
      BY <3>1, RingFrame
  <2> QED
    BY <2>1, <2>2
<1>2. CASE TakeByte
  BY <1>2, RingTake
<1>3. CASE TakenByte
  BY <1>3, RingTaken
<1>4. CASE UNCHANGED <<kb_in, taking>> /\ wire' \in Seq(Bytes)
  BY <1>4, RingFrame
<1>5. ASSUME NEW k \in DOMAIN Make, Press(k) \/ Release(k)
      PROVE  UNCHANGED <<kb_in, taking>> /\ wire' \in Seq(Bytes)
  <2>1. Make[k] \in Seq(Bytes) /\ Break(k) \in Seq(Bytes)
    BY CodesAreBytes DEF Codes
  <2> QED
    BY <1>5, <2>1 DEF Press, Release
<1>6. CASE NothingToRead \/ Decode \/ TtyDoWrite \/ UNCHANGED vars
  <2>1. UNCHANGED <<kb_in, taking>> /\ wire' = wire
    BY <1>6 DEF NothingToRead, Decode, TtyDoWrite, user, vars
  <2> QED
    BY <1>4, <2>1 DEF RingInv
<1> QED
  BY <1>1, <1>2, <1>3, <1>4, <1>5, <1>6 DEF Next, TaskTty

\* kb_in keeps its shape: its count is that of the bytes between its pointers.
THEOREM RingInvariance == Spec => []RingInv
<1>1. RingInv /\ [Next]_vars => RingInv'
  BY RingStep
<1> QED
  BY <1>1, RingInit, PTL DEF Spec

\* kb_in, its count written back by task_tty with interrupts off, is a bounded
\* queue: each byte that found room is read once, and in order, whatever the
\* keyboard sends and however late task_tty is (keyboard.c 48-65, 166-183).
THEOREM KbInImplementsQueue == Spec => KbInIsQueue
<1> DEFINE QInit == Waiting = <<>>
           QNext == \/ Waiting # <<>> /\ Waiting' = Tail(Waiting)
                    \/ \E x \in Bytes : Len(Waiting) < KB_IN_BYTES /\ Waiting' = Append(Waiting, x)
<1>1. RingInv /\ [Next]_vars => [QNext]_Waiting
  <2> SUFFICES ASSUME RingInv, [Next]_vars, Waiting' # Waiting PROVE QNext
    OBVIOUS
  <2>1. CASE /\ KeyboardHandler /\ HasRoom(kb_in, KB_IN_BYTES)
             /\ Head(wire) \in Bytes /\ Waiting' = Append(Waiting, Head(wire))
    <3>1. Len(Waiting) = kb_in.count /\ kb_in.count < KB_IN_BYTES
      <4>1. Live = kb_in.count /\ kb_in.count \in Nat
        BY <2>1, KeyboardAssumption DEF KeyboardHandler, InterruptsOn, Live, Taken, RingInv
      <4> QED
        BY <2>1, <4>1 DEF Waiting, HasRoom
    <3> QED
      BY <2>1, <3>1
  <2> QED
    BY <2>1, RingStep
<1>2. Init => QInit
  BY RingInit
<1>3. Spec => QInit /\ [][QNext]_Waiting
  BY <1>1, <1>2, RingInvariance, PTL DEF Spec
<1>4. QInit <=> KbQueue!Init
  BY DEF KbQueue!Init, Waiting, Live, Taken
<1>5. [QNext]_Waiting <=> [KbQueue!Next]_([i \in 1 .. kb_in.count
                                                   - (IF taking = -1 THEN 0 ELSE 1) |->
             kb_in.buf[(kb_in.tail + i - 1) % KB_IN_BYTES]])
  BY DEF KbQueue!Next, KbQueue!Put, KbQueue!Get, Waiting, Live, Taken
<1> HIDE DEF QInit, QNext
<1> QED
  BY <1>3, <1>4, <1>5, PTL DEF KbInIsQueue, KbQueue!Spec

-----------------------------------------------------------------------------
(* What is on its way                                                      *)

\* The modifiers that are down and the console that was asked for last, or what
\* task_tty takes them to be.
Settings == [held : SUBSET Modifiers, console : Consoles]
Shows    == {"a", "A", "\n"} \X Consoles

Code(k, make) == IF make THEN Make[k] ELSE Break(k)

After(u, k, make) ==
    [held |-> IF make THEN u.held \cup ({k} \cap Modifiers) ELSE u.held \ {k},
     console |->
        IF /\ make /\ k \in {"F1", "F2"} /\ u.held \cap {"CTRL_L", "CTRL_R"} # {}
           /\ u.held \cap {"ALT_L", "ALT_R"} # {}
        THEN IF k = "F1" THEN 0 ELSE 1
        ELSE u.console]

Echo(u, k, make) ==
    IF make /\ k = "A"
    THEN <<<<IF u.held \cap {"SHIFT_L", "SHIFT_R"} # {} THEN "A" ELSE "a", u.console>>>>
    ELSE IF make /\ k = "ENTER" THEN <<<<"\n", u.console>>>>
    ELSE <<>>

Run(codes, u, echo, v) == [codes |-> codes, before |-> u, echo |-> echo, after |-> v]
AnyRun == [codes : Seq(Bytes), before : Settings, echo : Seq(Shows), after : Settings]

Closed(V) ==
    /\ \A u \in Settings : Run(<<>>, u, <<>>, u) \in V
    /\ \A u \in Settings, k \in DOMAIN Make, make \in BOOLEAN, r \in V :
          Code(k, make) # <<>> /\ r.before = After(u, k, make)
              => Run(Code(k, make) \o r.codes, u, Echo(u, k, make) \o r.echo, r.after) \in V

\* The runs of the keyboard: the codes of whole keys, pressed and released one
\* after the other from certain settings, what they make appear on which console,
\* and the settings they lead to.  The least set with these closure properties.
Runs == {r \in AnyRun : \A V \in SUBSET AnyRun : Closed(V) => r \in V}

LEMMA AfterType ==
    ASSUME NEW u \in Settings, NEW k \in DOMAIN Make, NEW make \in BOOLEAN
    PROVE  /\ After(u, k, make) \in Settings /\ Echo(u, k, make) \in Seq(Shows)
           /\ Code(k, make) \in Seq(Bytes)
<1>1. u.held \subseteq Modifiers /\ u.console \in Consoles
  BY DEF Settings
<1>2. 0 \in Consoles /\ 1 \in Consoles
  BY KeyboardAssumption DEF Consoles
<1>3. After(u, k, make) \in Settings
  BY <1>1, <1>2 DEF After, Settings
<1>4. \A x \in Shows : <<x>> \in Seq(Shows)
  OBVIOUS
<1>5. \A ch \in {"a", "A", "\n"} : <<ch, u.console>> \in Shows
  BY <1>1 DEF Shows
<1>6. Echo(u, k, make) \in Seq(Shows)
  BY <1>4, <1>5 DEF Echo
<1>7. Code(k, make) \in Seq(Bytes)
  BY CodesAreBytes DEF Codes, Code
<1> QED
  BY <1>3, <1>6, <1>7

LEMMA RunsClosed == Closed(Runs)
<1>1. \A u \in Settings : Run(<<>>, u, <<>>, u) \in Runs
  BY DEF Runs, Closed, AnyRun, Run
<1>2. ASSUME NEW u \in Settings, NEW k \in DOMAIN Make, NEW make \in BOOLEAN, NEW r \in Runs,
             Code(k, make) # <<>>, r.before = After(u, k, make)
      PROVE  Run(Code(k, make) \o r.codes, u, Echo(u, k, make) \o r.echo, r.after) \in Runs
  <2> DEFINE n == Run(Code(k, make) \o r.codes, u, Echo(u, k, make) \o r.echo, r.after)
  <2>1. n \in AnyRun
    <3>1. r \in AnyRun
      BY DEF Runs
    <3>2. /\ r.codes \in Seq(Bytes) /\ r.echo \in Seq(Shows) /\ r.after \in Settings
      BY <3>1 DEF AnyRun
    <3>3. /\ Code(k, make) \o r.codes \in Seq(Bytes)
          /\ Echo(u, k, make) \o r.echo \in Seq(Shows)
      BY <3>2, AfterType, ConcatProperties
    <3> QED
      BY <3>2, <3>3 DEF AnyRun, Run
  <2>2. ASSUME NEW V \in SUBSET AnyRun, Closed(V) PROVE n \in V
    <3>1. r \in V
      BY <2>2 DEF Runs
    <3> QED
      BY <1>2, <2>2, <3>1 DEF Closed
  <2> QED
    BY <2>1, <2>2 DEF Runs
<1> QED
  BY <1>1, <1>2 DEF Closed

\* The first key of a run.
LEMMA FirstKey ==
    ASSUME NEW r \in Runs
    PROVE  \/ r.codes = <<>> /\ r.echo = <<>> /\ r.before = r.after
           \/ \E k \in DOMAIN Make, make \in BOOLEAN, q \in Runs :
                 /\ Code(k, make) # <<>> /\ q.before = After(r.before, k, make)
                 /\ r.codes = Code(k, make) \o q.codes
                 /\ r.echo = Echo(r.before, k, make) \o q.echo
                 /\ q.after = r.after
<1> DEFINE Good(n) ==
             \/ n.codes = <<>> /\ n.echo = <<>> /\ n.before = n.after
             \/ \E k \in DOMAIN Make, make \in BOOLEAN, q \in Runs :
                   /\ Code(k, make) # <<>> /\ q.before = After(n.before, k, make)
                   /\ n.codes = Code(k, make) \o q.codes
                   /\ n.echo = Echo(n.before, k, make) \o q.echo
                   /\ q.after = n.after
           V == {n \in Runs : Good(n)}
<1>1. V \in SUBSET AnyRun
  BY DEF Runs
<1>2. \A u \in Settings : Run(<<>>, u, <<>>, u) \in V
  BY RunsClosed DEF Closed, Run
<1>3. ASSUME NEW u \in Settings, NEW k \in DOMAIN Make, NEW make \in BOOLEAN, NEW q \in V,
             Code(k, make) # <<>>, q.before = After(u, k, make)
      PROVE  Run(Code(k, make) \o q.codes, u, Echo(u, k, make) \o q.echo, q.after) \in V
  <2> DEFINE n == Run(Code(k, make) \o q.codes, u, Echo(u, k, make) \o q.echo, q.after)
  <2>1. n \in Runs
    BY <1>3, RunsClosed DEF Closed
  <2>2. /\ n.codes = Code(k, make) \o q.codes /\ n.before = u
        /\ n.echo = Echo(u, k, make) \o q.echo /\ n.after = q.after
    BY DEF Run
  <2>3. q \in Runs
    OBVIOUS
  <2>4. Good(n)
    BY <1>3, <2>2, <2>3
  <2> QED
    BY <2>1, <2>4
<1>4. Closed(V)
  BY <1>2, <1>3 DEF Closed
<1> QED
  BY <1>1, <1>4 DEF Runs

\* One more key after a run.
LEMMA OneMoreKey ==
    ASSUME NEW r \in Runs, NEW k \in DOMAIN Make, NEW make \in BOOLEAN, Code(k, make) # <<>>
    PROVE  Run(r.codes \o Code(k, make), r.before, r.echo \o Echo(r.after, k, make),
               After(r.after, k, make)) \in Runs
<1> DEFINE More(n) == Run(n.codes \o Code(k, make), n.before,
                          n.echo \o Echo(n.after, k, make), After(n.after, k, make))
           V == {n \in Runs : More(n) \in Runs}
<1>1. V \in SUBSET AnyRun
  BY DEF Runs
<1>2. ASSUME NEW u \in Settings PROVE Run(<<>>, u, <<>>, u) \in V
  <2> DEFINE n == Run(<<>>, u, <<>>, u)  a == After(u, k, make)  q == Run(<<>>, a, <<>>, a)
  <2>1. n \in Runs
    BY RunsClosed DEF Closed
  <2>2. a \in Settings /\ Code(k, make) \in Seq(Bytes) /\ Echo(u, k, make) \in Seq(Shows)
    BY AfterType
  <2>3. q \in Runs
    BY <2>2, RunsClosed DEF Closed
  <2>4. q.before = a /\ q.codes = <<>> /\ q.echo = <<>> /\ q.after = a
    BY DEF Run
  <2>5. Run(Code(k, make) \o <<>>, u, Echo(u, k, make) \o <<>>, a) \in Runs
    BY <2>3, <2>4, RunsClosed DEF Closed
  <2>6. /\ n.codes = <<>> /\ n.echo = <<>> /\ n.before = u /\ n.after = u
    BY DEF Run
  <2>7. /\ Code(k, make) \o <<>> = Code(k, make) /\ <<>> \o Code(k, make) = Code(k, make)
        /\ Echo(u, k, make) \o <<>> = Echo(u, k, make)
        /\ <<>> \o Echo(u, k, make) = Echo(u, k, make)
    BY <2>2, ConcatEmptySeq
  <2>8. More(n) = Run(Code(k, make), u, Echo(u, k, make), a)
    BY <2>6, <2>7
  <2> QED
    BY <2>1, <2>5, <2>7, <2>8
<1>3. ASSUME NEW u \in Settings, NEW j \in DOMAIN Make, NEW m \in BOOLEAN, NEW q \in V,
             Code(j, m) # <<>>, q.before = After(u, j, m)
      PROVE  Run(Code(j, m) \o q.codes, u, Echo(u, j, m) \o q.echo, q.after) \in V
  <2> DEFINE n == Run(Code(j, m) \o q.codes, u, Echo(u, j, m) \o q.echo, q.after)
             w == More(q)
  <2>1. n \in Runs
    BY <1>3, RunsClosed DEF Closed
  <2>2. q \in AnyRun /\ w \in Runs
    BY DEF Runs
  <2>3. /\ q.codes \in Seq(Bytes) /\ q.echo \in Seq(Shows) /\ q.after \in Settings
        /\ Code(j, m) \in Seq(Bytes) /\ Echo(u, j, m) \in Seq(Shows)
        /\ Code(k, make) \in Seq(Bytes) /\ Echo(q.after, k, make) \in Seq(Shows)
    <3>1. q.codes \in Seq(Bytes) /\ q.echo \in Seq(Shows) /\ q.after \in Settings
      BY <2>2 DEF AnyRun
    <3> QED
      BY <3>1, AfterType
  <2>4. /\ w.codes = q.codes \o Code(k, make) /\ w.before = q.before
        /\ w.echo = q.echo \o Echo(q.after, k, make) /\ w.after = After(q.after, k, make)
    BY DEF Run
  <2>5. Run(Code(j, m) \o w.codes, u, Echo(u, j, m) \o w.echo, w.after) \in Runs
    BY <1>3, <2>2, <2>4, RunsClosed DEF Closed
  <2>6. /\ n.codes = Code(j, m) \o q.codes /\ n.before = u
        /\ n.echo = Echo(u, j, m) \o q.echo /\ n.after = q.after
    BY DEF Run
  <2>7. /\ (Code(j, m) \o q.codes) \o Code(k, make) = Code(j, m) \o w.codes
        /\ (Echo(u, j, m) \o q.echo) \o Echo(q.after, k, make) = Echo(u, j, m) \o w.echo
    <3> HIDE DEF w
    <3>0. /\ \A a, b, d \in Seq(Bytes) : (a \o b) \o d = a \o (b \o d)
          /\ \A a, b, d \in Seq(Shows) : (a \o b) \o d = a \o (b \o d)
      BY ConcatAssociative
    <3>1. (Code(j, m) \o q.codes) \o Code(k, make) = Code(j, m) \o (q.codes \o Code(k, make))
      BY <2>3, <3>0, Zenon
    <3>2. (Echo(u, j, m) \o q.echo) \o Echo(q.after, k, make)
             = Echo(u, j, m) \o (q.echo \o Echo(q.after, k, make))
      BY <2>3, <3>0, Zenon
    <3> QED
      BY <2>4, <3>1, <3>2
  <2>8. More(n) = Run(Code(j, m) \o w.codes, u, Echo(u, j, m) \o w.echo, w.after)
    BY <2>4, <2>6, <2>7
  <2> QED
    BY <2>1, <2>5, <2>8
<1>4. Closed(V)
  BY <1>2, <1>3 DEF Closed
<1>5. r \in V
  BY <1>1, <1>4 DEF Runs
<1> QED
  BY <1>5

\* keyboard_read takes the codes of one key, and no byte of the next.
LEMMA CodeShape ==
    ASSUME NEW k \in DOMAIN Make, NEW make \in BOOLEAN
    PROVE  LET c == Code(k, make)
           IN  \/ c = <<>> /\ k = "PAUSEBREAK" /\ ~make
               \/ Len(c) = 1 /\ c[1] \notin {224, 225}
               \/ Len(c) = 2 /\ c[1] = 224 /\ c[2] \notin {42, 183}
               \/ Len(c) = 4 /\ c[1] = 224 /\ c[2] \in {42, 183} /\ c[3] = 224
               \/ Len(c) = 6 /\ c[1] = 225
<1> DEFINE c == Code(k, make)
<1>1. CASE k \in {"SHIFT_L", "SHIFT_R", "CTRL_L", "ALT_L", "A", "ENTER", "F1", "F2"}
  <2>1. \E n \in 0 .. 255 \ {224, 225} : Make[k] = <<n>>
    BY <1>1, MakeIs
  <2>2. \E n \in 0 .. 255 \ {224, 225} : Break(k) = <<n>>
    BY <1>1, BreakIs
  <2>3. \E n \in 0 .. 255 \ {224, 225} : c = <<n>>
    BY <2>1, <2>2 DEF Code
  <2> QED
    BY <2>3
<1>2. CASE k \in {"CTRL_R", "ALT_R"}
  <2>1. \E n \in 0 .. 255 \ {42, 183} : Make[k] = <<224, n>>
    BY <1>2, MakeIs
  <2>2. \E n \in 0 .. 255 \ {42, 183} : Break(k) = <<224, n>>
    BY <1>2, BreakIs
  <2>3. \E n \in 0 .. 255 \ {42, 183} : c = <<224, n>>
    BY <2>1, <2>2 DEF Code
  <2> QED
    BY <2>3
<1>3. CASE k = "PRINTSCREEN"
  BY <1>3, MakeIs, BreakIs DEF Code
<1>4. CASE k = "PAUSEBREAK"
  BY <1>4, MakeIs, BreakIs DEF Code
<1> QED
  BY <1>1, <1>2, <1>3, <1>4, MakeIs

LEMMA NoCode ==
    ASSUME NEW k \in DOMAIN Make, NEW make \in BOOLEAN, Code(k, make) = <<>>
    PROVE  k = "PAUSEBREAK" /\ ~make
<1>1. Len(Code(k, make)) = 0
  OBVIOUS
<1> QED
  BY <1>1, CodeShape

LEMMA WholeKey ==
    ASSUME NEW c \in Codes \ {<<>>}, NEW s \in Seq(Bytes), NEW r \in Seq(Bytes),
           NEW q \in Seq(Bytes), s \o r = c \o q, Complete(s)
    PROVE  s = c /\ r = q
<1>0. PICK k \in DOMAIN Make, make \in BOOLEAN : c = Code(k, make)
  BY DEF Codes, Code
<1>1. c \in Seq(Bytes) /\ Len(c) \in Nat /\ Len(s) \in Nat /\ Len(r) \in Nat /\ Len(q) \in Nat
  BY CodesAreBytes
<1>2. \/ Len(c) = 1 /\ c[1] \notin {224, 225}
      \/ Len(c) = 2 /\ c[1] = 224 /\ c[2] \notin {42, 183}
      \/ Len(c) = 4 /\ c[1] = 224 /\ c[2] \in {42, 183} /\ c[3] = 224
      \/ Len(c) = 6 /\ c[1] = 225
  BY <1>0, CodeShape, NoCode
<1>3. Len(s) = Wanted(s)
  BY DEF Complete
<1>4. /\ Len(s) + Len(r) = Len(c) + Len(q)
      /\ \A i \in 1 .. Len(s) + Len(r) :
            (IF i <= Len(s) THEN s[i] ELSE r[i - Len(s)])
               = (IF i <= Len(c) THEN c[i] ELSE q[i - Len(c)])
  <2>1. /\ Len(s \o r) = Len(s) + Len(r)
        /\ \A i \in 1 .. Len(s) + Len(r) :
              (s \o r)[i] = IF i <= Len(s) THEN s[i] ELSE r[i - Len(s)]
    BY ConcatProperties
  <2>2. /\ Len(c \o q) = Len(c) + Len(q)
        /\ \A i \in 1 .. Len(c) + Len(q) :
              (c \o q)[i] = IF i <= Len(c) THEN c[i] ELSE q[i - Len(c)]
    BY <1>1, ConcatProperties
  <2>3. s \o r = c \o q
    OBVIOUS
  <2> QED
    BY <2>1, <2>2, <2>3
<1>5. \A i \in 1 .. Len(s) : i <= Len(c) => s[i] = c[i]
  <2> TAKE i \in 1 .. Len(s)
  <2>1. i \in 1 .. Len(s) + Len(r) /\ i <= Len(s)
    BY <1>1
  <2> QED
    BY <1>4, <2>1
<1>6. Len(s) = Len(c)
  <2>1. Len(s) >= 1 /\ s[1] = c[1] /\ s # <<>>
    <3>1. s # <<>>
      <4>1. Wanted(<<>>) = 1 /\ Len(<<>>) = 0
        BY DEF Wanted
      <4> QED
        BY <1>3, <4>1
    <3>2. Len(s) >= 1 /\ Len(c) >= 1
      BY <1>1, <1>2, <3>1, EmptySeq
    <3> QED
      BY <1>1, <1>5, <3>1, <3>2
  <2>2. CASE s[1] \notin {224, 225}
    BY <1>2, <1>3, <2>1, <2>2 DEF Wanted
  <2>3. CASE s[1] = 225
    <3>1. Wanted(s) = 6
      BY <2>1, <2>3 DEF Wanted
    <3>2. Len(c) = 6
      BY <1>2, <2>1, <2>3
    <3> QED
      BY <1>3, <3>1, <3>2
  <2>4. CASE s[1] = 224
    <3>1. Len(s) >= 2 /\ Len(c) >= 2
      BY <1>1, <1>2, <1>3, <2>1, <2>4 DEF Wanted
    <3>2. s[2] = c[2]
      BY <1>1, <1>5, <3>1
    <3>3. CASE s[2] \notin {42, 183}
      BY <1>2, <1>3, <2>1, <2>4, <3>1, <3>2, <3>3 DEF Wanted
    <3>4. CASE s[2] \in {42, 183}
      <4>1. Len(c) = 4 /\ c[3] = 224
        BY <1>2, <2>1, <2>4, <3>2, <3>4
      <4>2. Wanted(s) = IF Len(s) >= 3 /\ s[3] = 224 THEN 4 ELSE 3
        BY <2>1, <2>4, <3>1, <3>4 DEF Wanted
      <4>3. Len(s) >= 3 /\ s[3] = c[3]
        BY <1>1, <1>3, <1>5, <4>1, <4>2
      <4> QED
        BY <1>3, <4>1, <4>2, <4>3
    <3> QED
      BY <3>3, <3>4
  <2> QED
    BY <2>2, <2>3, <2>4
<1>7. s = c
  BY <1>1, <1>5, <1>6, SeqEqual
<1>8. Len(r) = Len(q) /\ \A i \in 1 .. Len(r) : r[i] = q[i]
  <2>1. Len(r) = Len(q)
    BY <1>1, <1>4, <1>6
  <2>2. ASSUME NEW i \in 1 .. Len(r) PROVE r[i] = q[i]
    <3>1. i + Len(s) \in 1 .. Len(s) + Len(r) /\ ~(i + Len(s) <= Len(s)) /\ (i + Len(s)) - Len(s) = i
      BY <1>1
    <3> QED
      BY <1>4, <1>6, <3>1
  <2> QED
    BY <2>1, <2>2
<1>9. r = q
  BY <1>8, SeqEqual
<1> QED
  BY <1>7, <1>9

\* What the driver makes of the codes of one key.
LEMMA RowIs ==
    /\ \A col \in 0 .. 1 :
          /\ keymap(42, col) = "SHIFT_L" /\ keymap(54, col) = "SHIFT_R"
          /\ keymap(29, col) = "CTRL_L" /\ keymap(56, col) = "ALT_L"
          /\ keymap(28, col) = "ENTER" /\ keymap(59, col) = "F1" /\ keymap(60, col) = "F2"
          /\ keymap(30, col) = IF col = 1 THEN "A" ELSE "a"
    /\ keymap(29, 2) = "CTRL_R" /\ keymap(56, 2) = "ALT_R"
<1>1. /\ Row(42) = <<"SHIFT_L", "SHIFT_L", "0">> /\ Row(54) = <<"SHIFT_R", "SHIFT_R", "0">>
      /\ Row(29) = <<"CTRL_L", "CTRL_L", "CTRL_R">> /\ Row(56) = <<"ALT_L", "ALT_L", "ALT_R">>
      /\ Row(30) = <<"a", "A", "0">> /\ Row(28) = <<"ENTER", "ENTER", "PAD_ENTER">>
      /\ Row(59) = <<"F1", "F1", "0">> /\ Row(60) = <<"F2", "F2", "0">>
  BY DEF Row
<1> QED
  BY <1>1, SMT DEF keymap

LEMMA KeyRead ==
    ASSUME NEW k \in DOMAIN Make, NEW make \in BOOLEAN,
           k \notin {"PRINTSCREEN", "PAUSEBREAK"}
    PROVE  LET c == Code(k, make)
           IN  /\ ~Special(c) /\ (IsMake(c) <=> make)
               /\ KeyOf(c) = IF k = "A" THEN (IF held \cap {"SHIFT_L", "SHIFT_R"} # {}
                                              THEN "A" ELSE "a")
                             ELSE k
<1> DEFINE c == Code(k, make)  column == IF held \cap {"SHIFT_L", "SHIFT_R"} # {} THEN 1 ELSE 0
<1>0. Special(c) => Len(c) \in {4, 6}
  BY MakeIs, BreakIs DEF Special
<1>1. ASSUME NEW n \in Int, c = <<n>>, n \notin {224, 225}
      PROVE  /\ ~Special(c) /\ (IsMake(c) <=> n < 128) /\ KeyOf(c) = keymap(n % 128, column)
  <2>1. ~Special(c)
    BY <1>0, <1>1
  <2>2. c[1] # 224 /\ ScanCode(c) = n
    BY <1>1 DEF ScanCode
  <2> QED
    BY <2>1, <2>2 DEF IsMake, KeyOf
<1>2. ASSUME NEW n \in Int, c = <<224, n>>
      PROVE  ~Special(c) /\ (IsMake(c) <=> n < 128) /\ KeyOf(c) = keymap(n % 128, 2)
  <2>1. ~Special(c)
    BY <1>0, <1>2
  <2>2. c[1] = 224 /\ ScanCode(c) = n
    BY <1>2 DEF ScanCode
  <2> QED
    BY <2>1, <2>2 DEF IsMake, KeyOf
<1>3. column \in 0 .. 1
  OBVIOUS
<1>4. \A n \in 0 .. 95 : n % 128 = n /\ (n + 128) % 128 = n
  BY SMT
<1>5. ASSUME NEW n \in 0 .. 95, Make[k] = <<n>>, Break(k) = <<n + 128>>
      PROVE  ~Special(c) /\ (IsMake(c) <=> make) /\ KeyOf(c) = keymap(n, column)
  <2>1. CASE make
    <3>1. c = <<n>> /\ n \in Int /\ n \notin {224, 225} /\ (n < 128 <=> make) /\ n % 128 = n
      BY <1>4, <1>5, <2>1 DEF Code
    <3> QED
      BY <1>1, <3>1
  <2>2. CASE ~make
    <3> DEFINE m == n + 128
    <3>1. c = <<m>> /\ m \in Int /\ m \notin {224, 225} /\ (m < 128 <=> make) /\ m % 128 = n
      BY <1>4, <1>5, <2>2 DEF Code
    <3> HIDE DEF m
    <3> QED
      BY <1>1, <3>1
  <2> QED
    BY <2>1, <2>2
<1>6. ASSUME NEW n \in 0 .. 95, Make[k] = <<224, n>>, Break(k) = <<224, n + 128>>
      PROVE  ~Special(c) /\ (IsMake(c) <=> make) /\ KeyOf(c) = keymap(n, 2)
  <2>1. CASE make
    <3>1. c = <<224, n>> /\ n \in Int /\ (n < 128 <=> make) /\ n % 128 = n
      BY <1>4, <1>6, <2>1 DEF Code
    <3> QED
      BY <1>2, <3>1
  <2>2. CASE ~make
    <3> DEFINE m == n + 128
    <3>1. c = <<224, m>> /\ m \in Int /\ (m < 128 <=> make) /\ m % 128 = n
      BY <1>4, <1>6, <2>2 DEF Code
    <3> HIDE DEF m
    <3> QED
      BY <1>2, <3>1
  <2> QED
    BY <2>1, <2>2
<1> HIDE DEF c
<1>7. \E n \in 0 .. 95 :
         \/ /\ Make[k] = <<n>> /\ Break(k) = <<n + 128>>
            /\ keymap(n, column) = IF k = "A" THEN (IF column = 1 THEN "A" ELSE "a") ELSE k
         \/ /\ Make[k] = <<224, n>> /\ Break(k) = <<224, n + 128>>
            /\ keymap(n, 2) = k /\ k # "A"
  <2> HIDE DEF column
  <2>1. CASE k = "SHIFT_L"
    <3>1. Make[k] = <<42>> /\ Break(k) = <<170>>
      BY <2>1, MakeIs, BreakIs
    <3>2. keymap(42, column) = k
      BY <1>3, <2>1, RowIs
    <3>3. 42 \in 0 .. 95 /\ 42 + 128 = 170
      OBVIOUS
    <3> QED
      BY <2>1, <3>1, <3>2, <3>3
  <2>2. CASE k = "SHIFT_R"
    <3>1. Make[k] = <<54>> /\ Break(k) = <<182>>
      BY <2>2, MakeIs, BreakIs
    <3>2. keymap(54, column) = k
      BY <1>3, <2>2, RowIs
    <3>3. 54 \in 0 .. 95 /\ 54 + 128 = 182
      OBVIOUS
    <3> QED
      BY <2>2, <3>1, <3>2, <3>3
  <2>3. CASE k = "CTRL_L"
    <3>1. Make[k] = <<29>> /\ Break(k) = <<157>>
      BY <2>3, MakeIs, BreakIs
    <3>2. keymap(29, column) = k
      BY <1>3, <2>3, RowIs
    <3>3. 29 \in 0 .. 95 /\ 29 + 128 = 157
      OBVIOUS
    <3> QED
      BY <2>3, <3>1, <3>2, <3>3
  <2>4. CASE k = "ALT_L"
    <3>1. Make[k] = <<56>> /\ Break(k) = <<184>>
      BY <2>4, MakeIs, BreakIs
    <3>2. keymap(56, column) = k
      BY <1>3, <2>4, RowIs
    <3>3. 56 \in 0 .. 95 /\ 56 + 128 = 184
      OBVIOUS
    <3> QED
      BY <2>4, <3>1, <3>2, <3>3
  <2>5. CASE k = "CTRL_R"
    <3>1. Make[k] = <<224, 29>> /\ Break(k) = <<224, 157>>
      BY <2>5, MakeIs, BreakIs
    <3>2. keymap(29, 2) = k
      BY <1>3, <2>5, RowIs
    <3>3. 29 \in 0 .. 95 /\ 29 + 128 = 157
      OBVIOUS
    <3> QED
      BY <2>5, <3>1, <3>2, <3>3
  <2>6. CASE k = "ALT_R"
    <3>1. Make[k] = <<224, 56>> /\ Break(k) = <<224, 184>>
      BY <2>6, MakeIs, BreakIs
    <3>2. keymap(56, 2) = k
      BY <1>3, <2>6, RowIs
    <3>3. 56 \in 0 .. 95 /\ 56 + 128 = 184
      OBVIOUS
    <3> QED
      BY <2>6, <3>1, <3>2, <3>3
  <2>7. CASE k = "A"
    <3>1. Make[k] = <<30>> /\ Break(k) = <<158>>
      BY <2>7, MakeIs, BreakIs
    <3>2. keymap(30, column) = (IF column = 1 THEN "A" ELSE "a")
      BY <1>3, <2>7, RowIs
    <3>3. 30 \in 0 .. 95 /\ 30 + 128 = 158
      OBVIOUS
    <3> QED
      BY <2>7, <3>1, <3>2, <3>3
  <2>8. CASE k = "ENTER"
    <3>1. Make[k] = <<28>> /\ Break(k) = <<156>>
      BY <2>8, MakeIs, BreakIs
    <3>2. keymap(28, column) = k
      BY <1>3, <2>8, RowIs
    <3>3. 28 \in 0 .. 95 /\ 28 + 128 = 156
      OBVIOUS
    <3> QED
      BY <2>8, <3>1, <3>2, <3>3
  <2>9. CASE k = "F1"
    <3>1. Make[k] = <<59>> /\ Break(k) = <<187>>
      BY <2>9, MakeIs, BreakIs
    <3>2. keymap(59, column) = k
      BY <1>3, <2>9, RowIs
    <3>3. 59 \in 0 .. 95 /\ 59 + 128 = 187
      OBVIOUS
    <3> QED
      BY <2>9, <3>1, <3>2, <3>3
  <2>10. CASE k = "F2"
    <3>1. Make[k] = <<60>> /\ Break(k) = <<188>>
      BY <2>10, MakeIs, BreakIs
    <3>2. keymap(60, column) = k
      BY <1>3, <2>10, RowIs
    <3>3. 60 \in 0 .. 95 /\ 60 + 128 = 188
      OBVIOUS
    <3> QED
      BY <2>10, <3>1, <3>2, <3>3
  <2> QED
    BY <2>1, <2>2, <2>3, <2>4, <2>5, <2>6, <2>7, <2>8, <2>9, <2>10, MakeIs
<1>8. column = 1 <=> held \cap {"SHIFT_L", "SHIFT_R"} # {}
  OBVIOUS
<1> HIDE DEF column
<1>9. /\ ~Special(c) /\ (IsMake(c) <=> make)
      /\ KeyOf(c) = IF k = "A" THEN (IF column = 1 THEN "A" ELSE "a") ELSE k
  BY <1>5, <1>6, <1>7
<1> QED
  BY <1>8, <1>9 DEF c

-----------------------------------------------------------------------------
(* From the key to the echo                                                *)

Heard == [held |-> held, console |-> nr_current_console]
Asked == [held |-> down, console |-> wanted]

TtyRing == [buf : [0 .. TTY_IN_BYTES - 1 -> Characters \cup {"\n", "none"}],
            head : 0 .. TTY_IN_BYTES - 1, tail : 0 .. TTY_IN_BYTES - 1, count : 0 .. 1]

\* An in_buf holds a character only between keyboard_read and tty_do_write for
\* the console of this turn, which is then the current one.
TtyInv ==
    /\ got \in Seq(Bytes) /\ pc \in {"read", "write"} /\ p_tty \in Consoles
    /\ got # <<>> => pc = "read" /\ IsCurrent(p_tty)
    /\ tty_table \in [Consoles -> TtyRing]
    /\ \A c \in Consoles :
          /\ InBuf(c).head = IF InBuf(c).count = 0 THEN InBuf(c).tail
                             ELSE Wrap(InBuf(c).tail + 1, TTY_IN_BYTES)
          /\ InBuf(c).count = 1 => pc = "write" /\ c = p_tty /\ IsCurrent(c)

\* What is about to be echoed.
Shown == IF pc = "write" /\ InBuf(p_tty).count = 1
         THEN <<<<InBuf(p_tty).buf[InBuf(p_tty).tail], p_tty>>>>
         ELSE <<>>

\* The bytes that are read, waiting or still to be sent are a run from what
\* task_tty takes the settings to be to what they are, and what it makes appear
\* is what was typed and is not shown yet.
RunInv ==
    \E T \in Seq(Shows) :
        /\ typed = Shown \o T /\ Shown \in Seq(Shows)
        /\ Run(got \o (Waiting \o wire), Heard, T, Asked) \in Runs

EchoInv == RingInv /\ (~dropped => TtyInv /\ RunInv)

LEMMA EmptyInBufs ==
    ASSUME TtyInv, pc = "read"
    PROVE  Shown = <<>> /\ \A c \in Consoles : InBuf(c).count = 0 /\ InBuf(c).head = InBuf(c).tail
<1>1. \A c \in Consoles : InBuf(c).count \in 0 .. 1 /\ InBuf(c).count # 1
  BY DEF TtyInv, TtyRing, InBuf
<1> QED
  BY <1>1 DEF TtyInv, Shown

LEMMA EchoInit == Init => EchoInv
<1> SUFFICES ASSUME Init PROVE EchoInv
  OBVIOUS
<1>1. RingInv /\ Waiting = <<>> /\ wire = <<>> /\ got = <<>>
  BY RingInit DEF Init
<1>2. TTY_IN_BYTES \in Nat \ {0} /\ 0 \in Consoles
  BY KeyboardAssumption DEF Consoles
<1>3. TtyInv
  BY <1>2 DEF Init, TtyInv, TtyRing, InBuf, Ring
<1>4. Shown = <<>> /\ typed = <<>> /\ Heard = Asked /\ Heard \in Settings
  BY <1>2 DEF Init, Shown, Heard, Asked, Settings
<1>5. Run(<<>>, Heard, <<>>, Asked) \in Runs
  BY <1>4, RunsClosed DEF Closed
<1>6. got \o (Waiting \o wire) = <<>> /\ <<>> \o <<>> = <<>> /\ <<>> \in Seq(Shows)
  BY <1>1
<1>7. RunInv
  BY <1>4, <1>5, <1>6 DEF RunInv
<1> QED
  BY <1>1, <1>3, <1>7 DEF EchoInv

\* A byte that changes hands.
LEMMA HandOver ==
    ASSUME NEW S, NEW s \in Seq(S), NEW t \in Seq(S), t # <<>>
    PROVE  Append(s, Head(t)) \o Tail(t) = s \o t
<1>1. Head(t) \in S /\ Tail(t) \in Seq(S) /\ Len(t) \in Nat /\ Len(t) >= 1
      /\ Len(Tail(t)) = Len(t) - 1 /\ (\A i \in 1 .. Len(Tail(t)) : Tail(t)[i] = t[i + 1])
      /\ Head(t) = t[1] /\ Len(s) \in Nat
  BY HeadTailProperties, EmptySeq
<1> DEFINE a == Append(s, Head(t))  r == Tail(t)
<1>2. a \in Seq(S) /\ Len(a) = Len(s) + 1 /\ (\A i \in 1 .. Len(s) : a[i] = s[i])
      /\ a[Len(s) + 1] = t[1] /\ r \in Seq(S) /\ Len(r) = Len(t) - 1
      /\ (\A i \in 1 .. Len(r) : r[i] = t[i + 1])
  BY <1>1, AppendProperties
<1> HIDE DEF a, r
<1>3. /\ a \o r \in Seq(S) /\ Len(a \o r) = Len(a) + Len(r)
      /\ \A i \in 1 .. Len(a) + Len(r) :
            (a \o r)[i] = IF i <= Len(a) THEN a[i] ELSE r[i - Len(a)]
  BY <1>2, ConcatProperties
<1>4. /\ s \o t \in Seq(S) /\ Len(s \o t) = Len(s) + Len(t)
      /\ \A i \in 1 .. Len(s) + Len(t) :
            (s \o t)[i] = IF i <= Len(s) THEN s[i] ELSE t[i - Len(s)]
  BY ConcatProperties
<1>5. Len(a \o r) = Len(s \o t) /\ Len(a) + Len(r) = Len(s) + Len(t)
  BY <1>1, <1>2, <1>3, <1>4
<1>6. ASSUME NEW i \in 1 .. Len(s) + Len(t) PROVE (a \o r)[i] = (s \o t)[i]
  <2>1. CASE i <= Len(s)
    BY <1>1, <1>2, <1>3, <1>4, <1>5, <2>1
  <2>2. CASE i = Len(s) + 1
    BY <1>1, <1>2, <1>3, <1>4, <1>5, <2>2
  <2>3. CASE i > Len(s) + 1
    <3>1. /\ i - Len(a) \in 1 .. Len(r) /\ (i - Len(a)) + 1 = i - Len(s) /\ ~(i <= Len(a))
          /\ ~(i <= Len(s))
      BY <1>1, <1>2, <2>3
    <3>2. r[i - Len(a)] = t[i - Len(s)]
      BY <1>2, <3>1
    <3> QED
      BY <1>3, <1>4, <1>5, <3>1, <3>2
  <2>4. i <= Len(s) \/ i = Len(s) + 1 \/ i > Len(s) + 1
    BY <1>1
  <2> QED
    BY <2>1, <2>2, <2>3, <2>4
<1>7. a \o r = s \o t
  BY <1>3, <1>4, <1>5, <1>6, SeqEqual
<1> QED
  BY <1>7 DEF a, r

LEMMA RunMoved ==
    ASSUME RunInv, Shown' = Shown, typed' = typed, Heard' = Heard, Asked' = Asked,
           (got \o (Waiting \o wire))' = got \o (Waiting \o wire)
    PROVE  RunInv'
BY DEF RunInv

\* A key goes down or up while the one before is sent: one more key of the run.
LEMMA EchoUser ==
    ASSUME EchoInv, ~dropped, NEW k \in DOMAIN Make, Press(k) \/ Release(k)
    PROVE  TtyInv' /\ RunInv'
<1>1. TtyInv /\ RunInv /\ RingInv
  BY DEF EchoInv
<1>2. /\ UNCHANGED <<kb_in, task, taking>> /\ wire = <<>>
      /\ Waiting' = Waiting /\ Shown' = Shown /\ Heard' = Heard
  BY DEF Press, Release, Waiting, Live, Taken, Shown, InBuf, Heard, task
<1>3. TtyInv'
  BY <1>1, <1>2 DEF TtyInv, InBuf, IsCurrent, task
<1>4. PICK T \in Seq(Shows) : /\ typed = Shown \o T /\ Shown \in Seq(Shows)
                              /\ Run(got \o (Waiting \o wire), Heard, T, Asked) \in Runs
  BY <1>1 DEF RunInv
<1> DEFINE r == Run(got \o (Waiting \o wire), Heard, T, Asked)
<1>5. /\ r \in Runs /\ r.codes = got \o (Waiting \o wire) /\ r.before = Heard
      /\ r.echo = T /\ r.after = Asked
  BY <1>4 DEF Run
<1>6. Asked \in Settings
  BY <1>5 DEF Runs, AnyRun
<1>7. got \in Seq(Bytes) /\ Waiting \in Seq(Bytes)
  BY <1>1 DEF TtyInv, RingInv
<1> HIDE DEF r
<1>8. ASSUME NEW make \in BOOLEAN, Code(k, make) # <<>>, wire' = Code(k, make),
             Asked' = After(Asked, k, make), typed' = typed \o Echo(Asked, k, make)
      PROVE  RunInv'
  <2> DEFINE E == Echo(Asked, k, make)  C == Code(k, make)
  <2>1. Run(r.codes \o C, r.before, r.echo \o E, After(r.after, k, make)) \in Runs
    BY <1>5, <1>8, OneMoreKey
  <2>2. C \in Seq(Bytes) /\ E \in Seq(Shows)
    BY <1>6, AfterType
  <2>3. r.codes \o C = (got \o (Waiting \o wire))'
    <3>1. Waiting \o <<>> = Waiting
      BY <1>7, ConcatEmptySeq
    <3>2. (got \o Waiting) \o C = got \o (Waiting \o C)
      BY <1>7, <2>2, ConcatAssociative
    <3>3. got' = got
      BY <1>2 DEF task
    <3> QED
      BY <1>2, <1>5, <1>8, <3>1, <3>2, <3>3
  <2>4. typed' = Shown' \o (T \o E) /\ T \o E \in Seq(Shows)
    <3>1. (Shown \o T) \o E = Shown \o (T \o E)
      BY <1>4, <2>2, ConcatAssociative
    <3>2. T \o E \in Seq(Shows)
      BY <1>4, <2>2, ConcatProperties
    <3> QED
      BY <1>2, <1>4, <1>8, <3>1, <3>2
  <2>5. Run((got \o (Waiting \o wire))', Heard', T \o E, Asked') \in Runs
    BY <1>2, <1>5, <1>8, <2>1, <2>3
  <2> HIDE DEF E
  <2> QED
    BY <1>2, <1>4, <2>4, <2>5 DEF RunInv
<1>9. down \subseteq Modifiers /\ Asked.held = down /\ Asked.console = wanted
  BY <1>6 DEF Asked, Settings
<1>10. CASE Press(k)
  <2>1. Code(k, TRUE) = Make[k] /\ Code(k, TRUE) # <<>>
    BY NoCode DEF Code
  <2>2. typed' = typed \o Types(k) /\ Types(k) = Echo(Asked, k, TRUE)
    BY <1>9, <1>10 DEF Press, Types, Echo, Shifted
  <2>3. Asked' = After(Asked, k, TRUE)
    <3>1. wanted' = IF k \in {"F1", "F2"} /\ CtrlAlt THEN IF k = "F1" THEN 0 ELSE 1 ELSE wanted
      BY <1>10 DEF Press
    <3> QED
      BY <1>9, <1>10, <3>1 DEF Press, After, Asked, CtrlAlt
  <2>4. /\ Code(k, TRUE) # <<>> /\ wire' = Code(k, TRUE)
        /\ typed' = typed \o Echo(Asked, k, TRUE)
    BY <1>10, <2>1, <2>2 DEF Press
  <2>5. TRUE \in BOOLEAN
    OBVIOUS
  <2> QED
    BY <1>3, <1>8, <2>3, <2>4, <2>5
<1>11. CASE Release(k)
  <2>1. /\ wire' = Code(k, FALSE) /\ Asked' = After(Asked, k, FALSE)
        /\ typed' = typed /\ Echo(Asked, k, FALSE) = <<>>
    BY <1>9, <1>11 DEF Release, Code, After, Echo, Asked
  <2>2. CASE Code(k, FALSE) # <<>>
    <3>1. typed \in Seq(Shows)
      BY <1>4, ConcatProperties
    <3>2. typed \o <<>> = typed
      BY <3>1, ConcatEmptySeq
    <3>3. typed' = typed \o Echo(Asked, k, FALSE)
      BY <2>1, <3>2
    <3>4. FALSE \in BOOLEAN
      OBVIOUS
    <3> QED
      BY <1>3, <1>8, <2>1, <2>2, <3>3, <3>4
  <2>3. CASE Code(k, FALSE) = <<>>
    <3>1. k = "PAUSEBREAK"
      BY <2>3, NoCode
    <3>2. k \notin Modifiers
      BY <3>1 DEF Modifiers
    <3>3. Asked' = Asked
      BY <1>9, <2>1, <3>2, <1>11 DEF Asked, Release
    <3>4. wire' = wire /\ got' = got
      BY <1>2, <2>1, <2>3 DEF task
    <3>5. typed' = typed
      BY <2>1
    <3>6. (got \o (Waiting \o wire))' = got \o (Waiting \o wire)
      BY <1>2, <3>4
    <3> QED
      BY <1>1, <1>2, <1>3, <3>3, <3>5, <3>6, RunMoved
  <2> QED
    BY <2>2, <2>3
<1> QED
  BY <1>3, <1>10, <1>11

\* A byte is put into kb_in or taken from it: it stays in the run.
LEMMA EchoByte ==
    ASSUME EchoInv, ~dropped', KeyboardHandler \/ TakeByte \/ TakenByte
    PROVE  TtyInv' /\ RunInv'
<1>1. ~dropped /\ UNCHANGED <<tty_table, p_tty, pc, nr_current_console, held, down, wanted>>
  BY DEF KeyboardHandler, TakeByte, TakenByte, task, user
<1>2. TtyInv /\ RunInv /\ RingInv
  BY <1>1 DEF EchoInv
<1>3. Shown' = Shown /\ Heard' = Heard /\ Asked' = Asked
  BY <1>1 DEF Shown, InBuf, Heard, Asked
<1>4. got \in Seq(Bytes) /\ Waiting \in Seq(Bytes) /\ wire \in Seq(Bytes)
  BY <1>2 DEF TtyInv, RingInv
<1>5. CASE KeyboardHandler
  <2>1. HasRoom(kb_in, KB_IN_BYTES) /\ typed' = typed /\ got' = got /\ wire # <<>>
        /\ wire' = Tail(wire)
    BY <1>5 DEF KeyboardHandler, task
  <2>2. Waiting' = Append(Waiting, Head(wire))
    BY <1>2, <1>5, <2>1, RingPut
  <2>3. Waiting' \o wire' = Waiting \o wire
    BY <1>4, <2>1, <2>2, HandOver
  <2>4. RunInv'
    BY <1>2, <1>3, <2>1, <2>3, RunMoved
  <2> QED
    BY <1>1, <1>2, <2>1, <2>4 DEF TtyInv, InBuf, IsCurrent
<1>6. CASE TakeByte
  <2>1. /\ pc = "read" /\ IsCurrent(p_tty) /\ typed' = typed
        /\ Waiting # <<>> /\ Waiting' = Tail(Waiting)
        /\ got' = Append(got, Head(Waiting)) /\ wire' = wire
    BY <1>2, <1>6, RingTake DEF TakeByte
  <2>2. /\ Head(Waiting) \in Bytes /\ got' \in Seq(Bytes) /\ Waiting' \in Seq(Bytes)
    BY <1>4, <2>1, HeadTailProperties, AppendProperties
  <2>3. got' \o Waiting' = got \o Waiting
    BY <1>4, <2>1, HandOver
  <2>4. /\ (got' \o Waiting') \o wire = got' \o (Waiting' \o wire)
        /\ (got \o Waiting) \o wire = got \o (Waiting \o wire)
    <3>1. (got' \o Waiting') \o wire = got' \o (Waiting' \o wire)
      BY <1>4, <2>2, ConcatAssociative
    <3>2. (got \o Waiting) \o wire = got \o (Waiting \o wire)
      BY <1>4, ConcatAssociative
    <3> QED
      BY <3>1, <3>2
  <2>5. RunInv'
    BY <1>2, <1>3, <2>1, <2>3, <2>4, RunMoved
  <2> QED
    BY <1>1, <1>2, <2>1, <2>2, <2>5 DEF TtyInv, InBuf, IsCurrent
<1>7. CASE TakenByte
  <2>1. Waiting' = Waiting /\ got' = got /\ wire' = wire /\ typed' = typed
    BY <1>2, <1>7, RingTaken DEF TakenByte
  <2>2. RunInv'
    BY <1>2, <1>3, <2>1, RunMoved
  <2> QED
    BY <1>1, <1>2, <2>1, <2>2 DEF TtyInv, InBuf, IsCurrent
<1> QED
  BY <1>5, <1>6, <1>7

\* The codes of a whole key are read: task_tty follows it.
LEMMA EchoDecode ==
    ASSUME EchoInv, ~dropped, Decode
    PROVE  TtyInv' /\ RunInv'
<1>1. TtyInv /\ RunInv /\ RingInv
  BY DEF EchoInv
<1>2. /\ pc = "read" /\ pc' = "write" /\ got' = <<>> /\ Complete(got)
      /\ UNCHANGED <<kb_in, taking, wire, p_tty, typed, down, wanted>>
  BY DEF Decode, user
<1>3. /\ Shown = <<>> /\ Waiting' = Waiting /\ Asked' = Asked
      /\ \A c \in Consoles : InBuf(c).count = 0 /\ InBuf(c).head = InBuf(c).tail
  BY <1>1, <1>2, EmptyInBufs DEF Waiting, Live, Taken, Asked
<1>4. /\ got \in Seq(Bytes) /\ Waiting \in Seq(Bytes) /\ wire \in Seq(Bytes)
      /\ Waiting \o wire \in Seq(Bytes)
  BY <1>1, ConcatProperties DEF TtyInv, RingInv
<1>5. got # <<>>
  <2>1. Wanted(<<>>) = 1 /\ Len(<<>>) = 0
    BY DEF Wanted
  <2> QED
    BY <1>2, <2>1 DEF Complete
<1>6. PICK T \in Seq(Shows) : /\ typed = T
                              /\ Run(got \o (Waiting \o wire), Heard, T, Asked) \in Runs
  <2>1. PICK T \in Seq(Shows) : /\ typed = Shown \o T
                                /\ Run(got \o (Waiting \o wire), Heard, T, Asked) \in Runs
    BY <1>1 DEF RunInv
  <2>2. Shown \o T = T
    BY <1>3, ConcatEmptySeq
  <2> QED
    BY <2>1, <2>2
<1> DEFINE r == Run(got \o (Waiting \o wire), Heard, T, Asked)
<1>7. /\ r \in Runs /\ r.codes = got \o (Waiting \o wire) /\ r.before = Heard
      /\ r.echo = T /\ r.after = Asked
  BY <1>6 DEF Run
<1> HIDE DEF r
<1>8. Heard \in Settings /\ held \subseteq Modifiers /\ nr_current_console \in Consoles
  BY <1>7 DEF Runs, AnyRun, Settings, Heard
<1>9. PICK k \in DOMAIN Make, make \in BOOLEAN, q \in Runs :
         /\ Code(k, make) # <<>> /\ q.before = After(Heard, k, make)
         /\ r.codes = Code(k, make) \o q.codes
         /\ T = Echo(Heard, k, make) \o q.echo /\ q.after = Asked
  <2>1. got \o (Waiting \o wire) # <<>>
    BY <1>4, <1>5, ConcatEqualIffEmpty
  <2> QED
    BY <1>7, <2>1, FirstKey
<1>10. q.codes \in Seq(Bytes) /\ q.echo \in Seq(Shows)
  BY DEF Runs, AnyRun
<1>11. got = Code(k, make) /\ Waiting \o wire = q.codes
  <2>1. got \o (Waiting \o wire) = Code(k, make) \o q.codes
    BY <1>7, <1>9
  <2> DEFINE w == Waiting \o wire
  <2>2. w \in Seq(Bytes) /\ got \o w = Code(k, make) \o q.codes
    BY <1>4, <2>1
  <2> HIDE DEF w
  <2>3. got = Code(k, make) /\ w = q.codes
    <3> DEFINE c == Code(k, make)
    <3>1. c \in Codes \ {<<>>}
      BY <1>9 DEF Codes, Code
    <3>2. got \o w = c \o q.codes /\ Complete(got)
      BY <1>2, <2>2
    <3> HIDE DEF c
    <3>3. got = c /\ w = q.codes
      BY <1>4, <1>10, <2>2, <3>1, <3>2, WholeKey
    <3> QED
      BY <3>3 DEF c
  <2> QED
    BY <2>3 DEF w
<1> DEFINE E == Echo(Heard, k, make)
<1>12. /\ Heard' = After(Heard, k, make)
       /\ \/ E = <<>> /\ tty_table' = tty_table
          \/ \E ch \in {"a", "A", "\n"} :
                /\ E = <<<<ch, nr_current_console>>>> /\ nr_current_console' = nr_current_console
                /\ tty_table' = [tty_table EXCEPT ![p_tty] = PutIn(@, TTY_IN_BYTES, ch)]
  <2>1. Heard.held = held /\ Heard.console = nr_current_console
    BY DEF Heard
  <2>2. CASE k \in {"PRINTSCREEN", "PAUSEBREAK"}
    <3>1. Special(got)
      BY <1>9, <1>11, <2>2, BreakIs DEF Special, Code
    <3>2. held' = held /\ nr_current_console' = nr_current_console /\ tty_table' = tty_table
      BY <3>1 DEF Decode
    <3>3. k \notin Modifiers
      BY <2>2 DEF Modifiers
    <3> QED
      BY <1>8, <2>1, <2>2, <3>2, <3>3 DEF After, Echo, Heard
  <2>3. CASE k \notin {"PRINTSCREEN", "PAUSEBREAK"}
    <3> DEFINE key == KeyOf(got)
    <3>1. /\ ~Special(got) /\ (IsMake(got) <=> make)
          /\ key = IF k = "A" THEN (IF held \cap {"SHIFT_L", "SHIFT_R"} # {} THEN "A" ELSE "a")
                   ELSE k
      BY <1>11, <2>3, KeyRead
    <3>2. key \in Modifiers <=> k \in Modifiers
      BY <3>1 DEF Modifiers
    <3>3. held' = IF make THEN held \cup ({k} \cap Modifiers) ELSE held \ {k}
      <4>1. held' = HeldAfter(key, IsMake(got))
        BY <3>1 DEF Decode
      <4> HIDE DEF key
      <4> QED
        BY <1>8, <3>1, <3>2, <4>1 DEF HeldAfter, Modifiers
    <3>4. CASE ~make
      <4>1. tty_table' = tty_table /\ nr_current_console' = nr_current_console
        BY <3>1, <3>4 DEF Decode
      <4> QED
        BY <2>1, <3>3, <3>4, <4>1 DEF After, Echo, Heard
    <3>5. CASE make
      <4>1. /\ tty_table' = InBufAfter(key)
            /\ nr_current_console' = IF Switches(key) THEN (IF key = "F1" THEN 0 ELSE 1)
                                     ELSE nr_current_console
        BY <3>1, <3>5 DEF Decode
      <4> HIDE DEF key
      <4>2. Heard' = After(Heard, k, make)
        BY <2>1, <3>1, <3>3, <3>5, <4>1 DEF After, Heard, Switches
      <4>3. CASE k = "A"
        <5>1. key \in {"a", "A"} /\ E = <<<<key, nr_current_console>>>>
          BY <2>1, <3>1, <3>5, <4>3 DEF Echo
        <5>2. tty_table' = [tty_table EXCEPT ![p_tty] = PutIn(@, TTY_IN_BYTES, key)]
          BY <4>1, <5>1 DEF InBufAfter, Characters
        <5>3. nr_current_console' = nr_current_console
          BY <4>1, <5>1 DEF Switches
        <5> QED
          BY <4>2, <5>1, <5>2, <5>3
      <4>4. CASE k = "ENTER"
        <5>1. key = "ENTER" /\ E = <<<<"\n", nr_current_console>>>>
          BY <2>1, <3>1, <3>5, <4>4 DEF Echo
        <5>2. tty_table' = [tty_table EXCEPT ![p_tty] = PutIn(@, TTY_IN_BYTES, "\n")]
          BY <4>1, <5>1 DEF InBufAfter, Characters
        <5>3. nr_current_console' = nr_current_console
          BY <4>1, <5>1 DEF Switches
        <5> QED
          BY <4>2, <5>1, <5>2, <5>3
      <4>5. CASE k \notin {"A", "ENTER"}
        <5>1. E = <<>> /\ key = k
          BY <3>1, <4>5 DEF Echo
        <5>2. key \notin Characters /\ key # "ENTER"
          BY <4>5, <5>1, MakeIs DEF Characters
        <5>3. tty_table' = tty_table
          BY <4>1, <5>2 DEF InBufAfter
        <5> QED
          BY <4>2, <5>1, <5>3
      <4> QED
        BY <4>3, <4>4, <4>5
    <3> QED
      BY <3>4, <3>5
  <2> QED
    BY <2>2, <2>3
<1>13. got' \o (Waiting' \o wire') = q.codes
  BY <1>2, <1>3, <1>10, <1>11, ConcatEmptySeq
<1>14. Run((got \o (Waiting \o wire))', Heard', q.echo, Asked') \in Runs
  <2>1. q = Run(q.codes, q.before, q.echo, q.after)
    BY DEF Runs, AnyRun, Run
  <2> QED
    BY <1>3, <1>9, <1>12, <1>13, <2>1
<1>15. p_tty \in Consoles /\ IsCurrent(p_tty) /\ tty_table \in [Consoles -> TtyRing]
  BY <1>1, <1>5 DEF TtyInv
<1>16. TTY_IN_BYTES \in Nat \ {0}
  BY KeyboardAssumption
<1> HIDE DEF E
<1>17. CASE E = <<>> /\ tty_table' = tty_table
  <2>1. \A c \in Consoles : InBuf(c)' = InBuf(c)
    BY <1>17 DEF InBuf
  <2>2. Shown' = <<>>
    BY <1>2, <1>3, <1>15, <2>1 DEF Shown
  <2>3. TtyInv'
    BY <1>1, <1>2, <1>3, <1>15, <1>17, <2>1 DEF TtyInv
  <2>4. typed' = Shown' \o q.echo /\ Shown' \in Seq(Shows)
    BY <1>2, <1>6, <1>9, <1>10, <1>17, <2>2, ConcatEmptySeq DEF E
  <2>5. RunInv'
    BY <1>10, <1>14, <2>4 DEF RunInv
  <2> QED
    BY <2>3, <2>5
<1>18. ASSUME NEW ch \in {"a", "A", "\n"}, E = <<<<ch, nr_current_console>>>>,
              nr_current_console' = nr_current_console,
              tty_table' = [tty_table EXCEPT ![p_tty] = PutIn(@, TTY_IN_BYTES, ch)]
       PROVE  TtyInv' /\ RunInv'
  <2> DEFINE b == InBuf(p_tty)  d == InBuf(p_tty)'
  <2>1. /\ b \in TtyRing /\ b.count = 0 /\ b.head = b.tail
    BY <1>3, <1>15 DEF InBuf
  <2>2. /\ d = [b EXCEPT !.buf[b.head] = ch, !.head = Wrap(@ + 1, TTY_IN_BYTES), !.count = @ + 1]
        /\ \A c \in Consoles : c # p_tty => InBuf(c)' = InBuf(c)
    BY <1>2, <1>15, <1>16, <1>18, <2>1 DEF InBuf, PutIn, HasRoom
  <2>3. /\ d.count = 1 /\ d.tail = b.tail /\ d.head = Wrap(b.tail + 1, TTY_IN_BYTES)
        /\ d.buf[d.tail] = ch /\ d \in TtyRing
    <3> HIDE DEF b, d
    <3>1. /\ b.buf \in [0 .. TTY_IN_BYTES - 1 -> Characters \cup {"\n", "none"}]
          /\ b.tail \in 0 .. TTY_IN_BYTES - 1
          /\ b = [buf |-> b.buf, head |-> b.head, tail |-> b.tail, count |-> b.count]
      BY <2>1 DEF TtyRing
    <3>2. d = [buf |-> [b.buf EXCEPT ![b.tail] = ch], head |-> Wrap(b.tail + 1, TTY_IN_BYTES),
               tail |-> b.tail, count |-> 1]
      <4>1. d = [b EXCEPT !.buf[b.head] = ch, !.head = Wrap(@ + 1, TTY_IN_BYTES),
                          !.count = @ + 1]
        BY <2>2
      <4>2. d = [buf |-> [b.buf EXCEPT ![b.head] = ch], head |-> Wrap(b.head + 1, TTY_IN_BYTES),
                 tail |-> b.tail, count |-> b.count + 1]
        BY <3>1, <4>1
      <4> QED
        BY <2>1, <4>2
    <3>3. Wrap(b.tail + 1, TTY_IN_BYTES) \in 0 .. TTY_IN_BYTES - 1
      BY <1>16, <3>1 DEF Wrap
    <3>4. [b.buf EXCEPT ![b.tail] = ch]
             \in [0 .. TTY_IN_BYTES - 1 -> Characters \cup {"\n", "none"}]
      BY <1>18, <3>1 DEF Characters
    <3>5. [b.buf EXCEPT ![b.tail] = ch][b.tail] = ch
      BY <3>1
    <3>6. d \in TtyRing
      BY <3>1, <3>2, <3>3, <3>4 DEF TtyRing
    <3> QED
      BY <3>2, <3>5, <3>6
  <2> HIDE DEF b, d
  <2>4. Shown' = <<<<ch, p_tty>>>>
    BY <1>2, <2>3 DEF Shown, InBuf, d
  <2>5. tty_table' \in [Consoles -> TtyRing]
    <3>1. tty_table' = [tty_table EXCEPT ![p_tty] = d]
      BY <1>2, <1>15, <1>18 DEF d, InBuf
    <3> QED
      BY <1>15, <2>3, <3>1
  <2>6. TtyInv'
    <3>1. ASSUME NEW c \in Consoles
          PROVE  /\ InBuf(c)'.head = IF InBuf(c)'.count = 0 THEN InBuf(c)'.tail
                                     ELSE Wrap(InBuf(c)'.tail + 1, TTY_IN_BYTES)
                 /\ InBuf(c)'.count = 1 => c = p_tty
      <4>1. CASE c = p_tty
        <5>1. InBuf(c)' = d
          BY <1>2, <4>1 DEF d, InBuf
        <5> QED
          BY <2>3, <4>1, <5>1
      <4>2. CASE c # p_tty
        BY <1>3, <2>2, <4>2
      <4> QED
        BY <4>1, <4>2
    <3>2. <<>> \in Seq(Bytes) /\ p_tty' = p_tty /\ got' = <<>> /\ pc' = "write"
          /\ p_tty \in Consoles /\ p_tty = nr_current_console'
      BY <1>2, <1>15, <1>18 DEF IsCurrent
    <3> QED
      BY <2>5, <3>1, <3>2 DEF TtyInv, IsCurrent, InBuf
  <2>7. typed' = Shown' \o q.echo /\ Shown' \in Seq(Shows)
    <3>1. p_tty = nr_current_console
      BY <1>15 DEF IsCurrent
    <3>2. E \in Seq(Shows)
      BY <1>8, AfterType DEF E
    <3> QED
      BY <1>2, <1>6, <1>9, <1>18, <2>4, <3>1, <3>2 DEF E
  <2> QED
    BY <1>10, <1>14, <2>6, <2>7 DEF RunInv
<1> QED
  BY <1>12, <1>17, <1>18 DEF E

\* A turn in which nothing is read.
LEMMA EchoNothing ==
    ASSUME EchoInv, ~dropped, NothingToRead
    PROVE  TtyInv' /\ RunInv'
<1>1. TtyInv /\ RunInv
  BY DEF EchoInv
<1>2. /\ pc = "read" /\ pc' = "write" /\ got = <<>> /\ got' = <<>>
      /\ UNCHANGED <<kb_in, taking, wire, tty_table, p_tty, nr_current_console, typed>>
      /\ Waiting' = Waiting /\ Asked' = Asked /\ Heard' = Heard
  BY DEF NothingToRead, user, Waiting, Live, Taken, Asked, Heard
<1>3. /\ Shown = <<>>
      /\ \A c \in Consoles : InBuf(c).count = 0 /\ InBuf(c).head = InBuf(c).tail
  BY <1>1, <1>2, EmptyInBufs
<1>4. \A c \in Consoles : InBuf(c)' = InBuf(c)
  BY <1>2 DEF InBuf
<1>5. p_tty \in Consoles /\ Shown' = <<>>
  BY <1>1, <1>2, <1>3, <1>4 DEF Shown, TtyInv
<1>6. TtyInv'
  BY <1>1, <1>2, <1>3, <1>4 DEF TtyInv
<1>7. (got \o (Waiting \o wire))' = got \o (Waiting \o wire)
  BY <1>2
<1>8. RunInv'
  BY <1>1, <1>2, <1>3, <1>5, <1>7, RunMoved
<1> QED
  BY <1>6, <1>8

\* What is echoed is what was typed first.
LEMMA EchoShown ==
    ASSUME TtyInv, RunInv, pc = "write", CanEcho
    PROVE  /\ InBuf(p_tty).count = 1 /\ typed # <<>>
           /\ Head(typed) = <<InBuf(p_tty).buf[InBuf(p_tty).tail], p_tty>>
           /\ \E T \in Seq(Shows) :
                 /\ typed = Shown \o T /\ Tail(typed) = T
                 /\ Run(got \o (Waiting \o wire), Heard, T, Asked) \in Runs
<1> DEFINE x == <<InBuf(p_tty).buf[InBuf(p_tty).tail], p_tty>>
<1>1. InBuf(p_tty).count = 1
  BY DEF TtyInv, TtyRing, CanEcho, InBuf
<1>2. Shown = <<x>>
  BY <1>1 DEF Shown
<1>3. PICK T \in Seq(Shows) : /\ typed = Shown \o T /\ Shown \in Seq(Shows)
                              /\ Run(got \o (Waiting \o wire), Heard, T, Asked) \in Runs
  BY DEF RunInv
<1> HIDE DEF x
<1>4. x \in Shows
  <2>1. Len(<<x>>) = 1 /\ <<x>>[1] = x
    OBVIOUS
  <2> QED
    BY <1>2, <1>3, <2>1, ElementOfSeq
<1>5. /\ Len(T) \in Nat /\ typed \in Seq(Shows) /\ Len(typed) = 1 + Len(T)
      /\ \A i \in 1 .. 1 + Len(T) : typed[i] = IF i <= 1 THEN x ELSE T[i - 1]
  <2>1. <<x>> \in Seq(Shows) /\ Len(<<x>>) = 1 /\ <<x>>[1] = x
    BY <1>4
  <2>2. typed = <<x>> \o T
    BY <1>2, <1>3
  <2> HIDE DEF x
  <2>3. /\ typed \in Seq(Shows) /\ Len(typed) = Len(<<x>>) + Len(T)
        /\ \A i \in 1 .. Len(<<x>>) + Len(T) :
              typed[i] = IF i <= Len(<<x>>) THEN <<x>>[i] ELSE T[i - Len(<<x>>)]
    BY <2>1, <2>2, ConcatProperties
  <2>4. \A i \in 1 .. 1 + Len(T) : i <= 1 => i = 1
    OBVIOUS
  <2> QED
    BY <2>1, <2>3, <2>4
<1>6. typed # <<>> /\ Head(typed) = x
  BY <1>5
<1>7. Tail(typed) = T
  <2>1. /\ Tail(typed) \in Seq(Shows) /\ Len(Tail(typed)) = Len(T)
        /\ \A i \in 1 .. Len(T) : Tail(typed)[i] = typed[i + 1]
    BY <1>5, <1>6, HeadTailProperties
  <2>2. \A i \in 1 .. Len(T) : typed[i + 1] = T[i]
    <3> TAKE i \in 1 .. Len(T)
    <3>1. i + 1 \in 1 .. 1 + Len(T) /\ ~(i + 1 <= 1) /\ (i + 1) - 1 = i
      BY <1>5
    <3> QED
      BY <1>5, <3>1
  <2> QED
    BY <1>5, <2>1, <2>2, SeqEqual
<1> QED
  BY <1>1, <1>3, <1>6, <1>7 DEF x

LEMMA EchoWrite ==
    ASSUME EchoInv, ~dropped, TtyDoWrite
    PROVE  TtyInv' /\ RunInv'
<1>1. TtyInv /\ RunInv
  BY DEF EchoInv
<1>2. /\ pc = "write" /\ pc' = "read" /\ got = <<>> /\ got' = <<>>
      /\ p_tty' = (p_tty + 1) % NR_CONSOLE
      /\ UNCHANGED <<kb_in, taking, wire, nr_current_console>>
      /\ Waiting' = Waiting /\ Asked' = Asked /\ Heard' = Heard
  BY <1>1 DEF TtyDoWrite, TtyInv, user, Waiting, Live, Taken, Asked, Heard
<1>3. p_tty \in Consoles /\ p_tty' \in Consoles /\ TTY_IN_BYTES \in Nat \ {0}
      /\ tty_table \in [Consoles -> TtyRing]
  <2>1. NR_CONSOLE \in Nat \ {0} /\ p_tty \in Nat
    BY <1>1, KeyboardAssumption DEF TtyInv, Consoles
  <2>2. (p_tty + 1) % NR_CONSOLE \in 0 .. NR_CONSOLE - 1
    <3> DEFINE z == p_tty + 1
    <3>1. z \in Nat
      BY <2>1
    <3> HIDE DEF z
    <3>2. z % NR_CONSOLE \in 0 .. NR_CONSOLE - 1
      BY <2>1, <3>1, DivMod
    <3> QED
      BY <3>2 DEF z
  <2> QED
    BY <1>1, <1>2, <2>2, KeyboardAssumption DEF TtyInv, Consoles
<1>4. Shown' = <<>> /\ Shown' \in Seq(Shows)
  BY <1>2 DEF Shown
<1>5. (got \o (Waiting \o wire))' = got \o (Waiting \o wire)
  BY <1>2
<1>6. CASE CanEcho
  <2>1. PICK T \in Seq(Shows) :
           /\ Tail(typed) = T /\ typed # <<>>
           /\ Run(got \o (Waiting \o wire), Heard, T, Asked) \in Runs
    BY <1>1, <1>2, <1>6, EchoShown
  <2>2. typed' = T
    BY <1>6, <2>1 DEF TtyDoWrite
  <2>3. typed' = Shown' \o T
    BY <1>4, <2>2, ConcatEmptySeq
  <2>4. RunInv'
    BY <1>2, <1>4, <1>5, <2>1, <2>3 DEF RunInv
  <2> DEFINE b == InBuf(p_tty)
             d == [Advanced(b, TTY_IN_BYTES, "none") EXCEPT !.count = @ - 1]
  <2>5. b \in TtyRing /\ b.count = 1 /\ b.head = Wrap(b.tail + 1, TTY_IN_BYTES)
    BY <1>1, <1>2, <1>3, <1>6, EchoShown DEF TtyInv, InBuf
  <2>6. tty_table' = [tty_table EXCEPT ![p_tty] = d]
    BY <1>6 DEF TtyDoWrite
  <2>7. d \in TtyRing /\ d.count = 0 /\ d.head = d.tail
    <3> HIDE DEF b
    <3>1. /\ b.buf \in [0 .. TTY_IN_BYTES - 1 -> Characters \cup {"\n", "none"}]
          /\ b.tail \in 0 .. TTY_IN_BYTES - 1 /\ b.head \in 0 .. TTY_IN_BYTES - 1
          /\ b = [buf |-> b.buf, head |-> b.head, tail |-> b.tail, count |-> b.count]
      BY <2>5 DEF TtyRing
    <3>2. d = [buf |-> [b.buf EXCEPT ![b.tail] = "none"], head |-> b.head,
               tail |-> Wrap(b.tail + 1, TTY_IN_BYTES), count |-> b.count - 1]
      <4> DEFINE a == Advanced(b, TTY_IN_BYTES, "none")
      <4>1. a = [b EXCEPT !.buf[b.tail] = "none", !.tail = Wrap(@ + 1, TTY_IN_BYTES)]
        BY DEF Advanced
      <4>2. d = [a EXCEPT !.count = @ - 1]
        OBVIOUS
      <4> HIDE DEF a, d
      <4>3. a = [buf |-> [b.buf EXCEPT ![b.tail] = "none"], head |-> b.head,
                 tail |-> Wrap(b.tail + 1, TTY_IN_BYTES), count |-> b.count]
        BY <3>1, <4>1
      <4> QED
        BY <4>2, <4>3
    <3>3. [b.buf EXCEPT ![b.tail] = "none"]
             \in [0 .. TTY_IN_BYTES - 1 -> Characters \cup {"\n", "none"}]
      BY <3>1
    <3> HIDE DEF d
    <3>4. d.count = 0 /\ d.head = d.tail /\ d.tail = b.head
      BY <2>5, <3>2
    <3> QED
      BY <2>5, <3>1, <3>2, <3>3, <3>4 DEF TtyRing
  <2> HIDE DEF b, d
  <2>8. tty_table' \in [Consoles -> TtyRing]
    BY <1>3, <2>6, <2>7
  <2>9. \A c \in Consoles : InBuf(c)'.count = 0 /\ InBuf(c)'.head = InBuf(c)'.tail
    <3> TAKE c \in Consoles
    <3>1. CASE c = p_tty
      <4>1. InBuf(c)' = d
        BY <1>3, <2>6, <3>1 DEF InBuf
      <4> QED
        BY <2>7, <4>1
    <3>2. CASE c # p_tty
      <4>1. InBuf(c)' = InBuf(c)
        BY <1>3, <2>6, <3>2 DEF InBuf
      <4>2. InBuf(c).count \in 0 .. 1 /\ InBuf(c).count # 1
        BY <1>1, <3>2 DEF TtyInv, TtyRing, InBuf
      <4> QED
        BY <1>1, <4>1, <4>2 DEF TtyInv
    <3> QED
      BY <3>1, <3>2
  <2>10. TtyInv'
    <3>1. <<>> \in Seq(Bytes)
      OBVIOUS
    <3> QED
      BY <1>2, <1>3, <2>8, <2>9, <3>1 DEF TtyInv
  <2> QED
    BY <2>4, <2>10
<1>7. CASE ~CanEcho
  <2>1. tty_table' = tty_table /\ typed' = typed
    BY <1>7 DEF TtyDoWrite
  <2>2. \A c \in Consoles : InBuf(c).count = 0 /\ InBuf(c)' = InBuf(c)
    <3> TAKE c \in Consoles
    <3>1. InBuf(c).count \in 0 .. 1
      BY <1>1 DEF TtyInv, TtyRing, InBuf
    <3>2. InBuf(c).count # 1
      BY <1>1, <1>7 DEF TtyInv, CanEcho
    <3> QED
      BY <2>1, <3>1, <3>2 DEF InBuf
  <2>3. Shown = <<>>
    BY <1>3, <2>2 DEF Shown
  <2>4. RunInv'
    BY <1>1, <1>2, <1>4, <1>5, <2>1, <2>3, RunMoved
  <2>5. TtyInv'
    BY <1>1, <1>2, <1>3, <2>1, <2>2 DEF TtyInv
  <2> QED
    BY <2>4, <2>5
<1> QED
  BY <1>6, <1>7

LEMMA EchoStep == EchoInv /\ [Next]_vars => EchoInv'
<1> SUFFICES ASSUME EchoInv, [Next]_vars PROVE EchoInv'
  OBVIOUS
<1>1. RingInv'
  BY RingStep DEF EchoInv
<1> SUFFICES ASSUME ~dropped' PROVE TtyInv' /\ RunInv'
  BY <1>1 DEF EchoInv
<1>2. ~dropped
  BY DEF Next, TaskTty, Press, Release, KeyboardHandler, TakeByte, TakenByte, NothingToRead,
         Decode, TtyDoWrite, vars
<1>3. CASE UNCHANGED vars
  <2>1. /\ UNCHANGED <<kb_in, taking, wire, got, tty_table, p_tty, pc, nr_current_console, held>>
        /\ UNCHANGED <<down, wanted, typed>>
    BY <1>3 DEF vars, task, user
  <2>2. /\ Waiting' = Waiting /\ Shown' = Shown /\ Heard' = Heard /\ Asked' = Asked
        /\ (got \o (Waiting \o wire))' = got \o (Waiting \o wire)
    BY <2>1 DEF Waiting, Live, Taken, Shown, InBuf, Heard, Asked
  <2>3. RunInv'
    BY <1>2, <2>1, <2>2, RunMoved DEF EchoInv
  <2>4. TtyInv'
    BY <1>2, <2>1 DEF EchoInv, TtyInv, InBuf, IsCurrent
  <2> QED
    BY <2>3, <2>4
<1>4. CASE Next
  BY <1>2, <1>4, EchoUser, EchoByte, EchoNothing, EchoDecode, EchoWrite DEF Next, TaskTty
<1> QED
  BY <1>3, <1>4

\* What is read, waits or is still sent is a run of whole keys that leads from what
\* task_tty takes the modifiers and the console to be to what they are, and that
\* makes appear what is typed and not shown: so task_tty never loses its place in
\* the bytes, as long as kb_in did not overflow (keyboard.c 69-158).
THEOREM EchoInvariance == Spec => []EchoInv
  BY EchoInit, EchoStep, PTL DEF Spec

\* When all is read and no byte was lost, task_tty agrees with the keyboard: the
\* six modifier variables of keyboard.c are the keys held down, nothing typed was
\* lost, and nr_current_console is the console asked for.
THEOREM RestsInAgreement == Spec => []RestAgrees
<1>1. EchoInv => RestAgrees
  <2> SUFFICES ASSUME EchoInv, AtRest, ~dropped
               PROVE  held = down /\ typed = <<>> /\ nr_current_console = wanted
    BY DEF RestAgrees
  <2>1. TtyInv /\ RunInv
    BY DEF EchoInv
  <2>2. wire = <<>> /\ got = <<>> /\ pc = "read" /\ Waiting = <<>>
    BY DEF AtRest, Waiting, Live, Taken
  <2>3. Shown = <<>>
    BY <2>1, <2>2, EmptyInBufs
  <2>4. PICK T \in Seq(Shows) : /\ typed = Shown \o T
                                /\ Run(got \o (Waiting \o wire), Heard, T, Asked) \in Runs
    BY <2>1 DEF RunInv
  <2>5. got \o (Waiting \o wire) = <<>>
    BY <2>2
  <2> DEFINE r == Run(<<>>, Heard, T, Asked)
  <2>6. /\ r \in Runs /\ r.codes = <<>> /\ r.before = Heard /\ r.echo = T /\ r.after = Asked
    BY <2>4, <2>5 DEF Run
  <2> HIDE DEF r
  <2>7. ASSUME NEW k \in DOMAIN Make, NEW make \in BOOLEAN, NEW q \in Runs,
               Code(k, make) # <<>>, r.codes = Code(k, make) \o q.codes
        PROVE  FALSE
    <3>1. Code(k, make) \in Seq(Bytes) /\ q.codes \in Seq(Bytes)
      BY CodesAreBytes DEF Codes, Code, Runs, AnyRun
    <3> QED
      BY <2>6, <2>7, <3>1, ConcatEqualIffEmpty
  <2>8. T = <<>> /\ Heard = Asked
    BY <2>6, <2>7, FirstKey
  <2>9. typed = <<>>
    BY <2>3, <2>4, <2>8, ConcatEmptySeq
  <2> QED
    BY <2>8, <2>9 DEF Heard, Asked
<1> QED
  BY <1>1, EchoInvariance, PTL

\* A character that leaves an in_buf is the first one typed that was not shown,
\* with the shift and on the console of the moment it was typed, unless a byte was
\* lost (tty.c 86-104).
THEOREM EchoesWhatWasTyped == Spec => EchoFollowsTyping
<1> DEFINE Right == \A c \in Consoles :
                       tty_table'[c].count < InBuf(c).count /\ ~dropped
                          => typed # <<>> /\ Head(typed) = <<InBuf(c).buf[InBuf(c).tail], c>>
<1>1. EchoInv /\ [Next]_vars => [Right]_vars
  <2> SUFFICES ASSUME EchoInv, Next, ~dropped, NEW c \in Consoles,
                      tty_table'[c].count < InBuf(c).count
               PROVE  typed # <<>> /\ Head(typed) = <<InBuf(c).buf[InBuf(c).tail], c>>
    OBVIOUS
  <2>1. TtyInv /\ RunInv /\ InBuf(c).count \in 0 .. 1 /\ tty_table \in [Consoles -> TtyRing]
    BY DEF EchoInv, TtyInv, TtyRing, InBuf
  <2>2. tty_table' # tty_table
    <3>1. tty_table' = tty_table => ~(InBuf(c).count < InBuf(c).count)
      BY <2>1
    <3> QED
      BY <3>1 DEF InBuf
  <2>3. CASE Decode
    <3>1. \A d \in Consoles : InBuf(d).count = 0
      BY <2>1, <2>3, EmptyInBufs DEF Decode
    <3>2. \/ tty_table' = tty_table
          \/ \E x : tty_table' = [tty_table EXCEPT ![p_tty] = PutIn(@, TTY_IN_BYTES, x)]
      BY <2>3 DEF Decode, InBufAfter
    <3>3. PICK x : tty_table' = [tty_table EXCEPT ![p_tty] = PutIn(@, TTY_IN_BYTES, x)]
      BY <2>2, <3>2
    <3>4. tty_table'[c].count \in {0, 1}
      <4>1. InBuf(c) \in TtyRing /\ InBuf(c).count = 0
        BY <2>1, <3>1 DEF InBuf
      <4>2. PutIn(InBuf(c), TTY_IN_BYTES, x).count \in {0, 1}
        BY <4>1 DEF PutIn, TtyRing
      <4> QED
        BY <2>1, <3>3, <4>1, <4>2 DEF InBuf
    <3> QED
      BY <3>1, <3>4
  <2>4. CASE TtyDoWrite
    <3>1. CanEcho /\ pc = "write"
      BY <2>2, <2>4 DEF TtyDoWrite
    <3>2. c = p_tty
      <4>1. \E d : tty_table' = [tty_table EXCEPT ![p_tty] = d]
        BY <2>4, <3>1 DEF TtyDoWrite
      <4>2. c # p_tty => tty_table'[c] = InBuf(c)
        BY <2>1, <4>1 DEF InBuf
      <4> QED
        BY <2>1, <4>2
    <3> QED
      BY <2>1, <3>1, <3>2, EchoShown
  <2> QED
    BY <2>2, <2>3, <2>4 DEF Next, TaskTty, Press, Release, KeyboardHandler, TakeByte,
                            TakenByte, NothingToRead, task
<1>2. Spec => [][Right]_vars
  BY <1>1, EchoInvariance, PTL DEF Spec
<1> QED
  BY <1>2 DEF EchoFollowsTyping
=============================================================================
