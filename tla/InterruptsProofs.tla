-------------------------- MODULE InterruptsProofs --------------------------
(***************************************************************************)
(* Proofs about Interrupts, for any processes, lines and system calls.     *)
(***************************************************************************)
EXTENDS Interrupts, FiniteSetTheorems, TLAPS

-----------------------------------------------------------------------------
(* The inductive invariant                                                 *)

\* What an activation is: f is the i-th of d, and r is p_proc_ready.
FrameOK(f, i, d, r) ==
    /\ f.ret = "restart" <=> i = 1
    /\ f.home \in Procs <=> i = 1 /\ f.kind # "main"
    /\ f.kind = "main" => /\ i = 1 /\ f.sys = "none"
                          /\ f.pc \in {"early", "put", "mask", "late", "write", "restart",
                                     "frame", "spin"}
                          /\ f.pc = "write" => f.irq \in LateLines
    /\ f.kind = "irq"  => /\ f.irq \in Devices /\ f.sys = "none"
                          /\ f.pc \in {"body", "spin", "exit", "frame"}
    /\ f.kind = "call" => /\ f.sys # "none" /\ (i = 1 \/ f.sys \in Printings)
                          /\ f.pc \in {"args", "body", "spin", "exit", "frame"}
    /\ f.pc \in {"early", "frame"} => i = d
    /\ f.home \in Procs /\ f.pc \in {"args", "body"} => f.home = r
    /\ f.home \in Procs /\ f.kind = "call" /\ f.pc # "args" => f.arg = f.home
FramesOK == \A i \in 1 .. depth : FrameOK(stack[i], i, depth, p_proc_ready)

\* When interrupts are on, and when the pointers are set.
Flags ==
    /\ depth = 0 => /\ cpu.proc \in Procs /\ cpu.proc = p_proc_ready
                    /\ sp0 = p_proc_ready /\ sti
    /\ depth > 0 => /\ cpu = NoOne
                    /\ ~sti <=> \/ Top.pc = "early"
                                \/ Top.pc = "frame" /\ Top.kind # "main"
                    /\ Top.pc = "frame" /\ Top.ret = "restart" => sp0 = p_proc_ready
                    /\ stack[1].kind # "main" => p_proc_ready \in Procs /\ sp0 \in Procs
                    /\ stack[1].pc \in {"restart", "frame"} => p_proc_ready \in Procs

Inv1 == TypeOK /\ ReenterIsDepth /\ FramesOK /\ Flags

LEMMA InitInv1 == Init => Inv1
<1> SUFFICES ASSUME Init PROVE Inv1
    OBVIOUS
<1> USE InterruptsAssumption DEF Init, MainFrame, None, OnStack, Lines
<1>1. stack \in [1 .. depth -> Frames]
    BY DEF Frames
<1>2. p_proc_ready \in Procs \cup {None} /\ sp0 \in Procs \cup {None} /\ k_reenter \in Int /\ depth \in Nat
    OBVIOUS
<1>3. regs \in [Procs -> [n : {0, 1}, eax : Procs \cup {None}]] /\ done \in [Procs -> {0, 1}]
    OBVIOUS
<1>4. cpu \in [proc : Procs \cup {None}, n : {0, 1}, eax : Procs \cup {None}]
    BY DEF NoOne
<1>5. masked \subseteq Lines /\ temp \subseteq Lines /\ sti \in BOOLEAN
      /\ state \in {"running", "stopped", "wild"}
    OBVIOUS
<1>6. TypeOK
    BY <1>1, <1>2, <1>3, <1>4, <1>5 DEF TypeOK
<1>7. FramesOK
    BY DEF FramesOK, FrameOK
<1>8. Flags /\ ReenterIsDepth
    BY DEF Flags, Top, NoOne, ReenterIsDepth, Early
<1> QED BY <1>6, <1>7, <1>8 DEF Inv1

\* At 0, k_reenter tells that a process was interrupted.
LEMMA ReenterZero ==
    ASSUME TypeOK, ReenterIsDepth, InterruptsAssumption
    PROVE  /\ k_reenter = 0 /\ depth > 0 => depth = 1
           /\ depth = 1 /\ ~Early => k_reenter = 0
           /\ depth = 0 => k_reenter + 1 = 0
<1>1. depth \in Nat /\ k_reenter \in Int /\ Leftover \subseteq Int
    BY InterruptsAssumption DEF TypeOK
<1>2. CASE Early
  <2>1. PICK l \in Leftover : k_reenter = l + depth - 1 /\ \A i \in 1 .. depth - 1 : l + i # 0
    BY <1>2 DEF ReenterIsDepth
  <2>2. k_reenter = 0 /\ depth > 0 => depth = 1
    <3> SUFFICES ASSUME k_reenter = 0, depth > 1 PROVE FALSE
        BY <1>1
    <3>1. depth - 1 \in 1 .. depth - 1 /\ l + (depth - 1) = 0
        BY <1>1, <2>1
    <3> QED BY <2>1, <3>1
  <2> QED BY <1>1, <1>2, <2>2 DEF Early
<1>3. CASE ~Early
    BY <1>1, <1>3 DEF ReenterIsDepth
<1> QED BY <1>2, <1>3

-----------------------------------------------------------------------------
(* The two ways the stack changes                                          *)

\* The newest activation goes on.
LEMMA GotoFrames ==
    ASSUME TypeOK, FramesOK, depth > 0, NEW f \in Frames, Goto(f), depth' = depth,
           p_proc_ready' = p_proc_ready \/ depth = 1,
           FrameOK(f, depth, depth, p_proc_ready')
    PROVE  /\ stack' \in [1 .. depth' -> Frames] /\ FramesOK'
           /\ Top' = f /\ stack'[1] = IF depth = 1 THEN f ELSE stack[1]
<1>1. depth \in Nat \ {0} /\ stack \in [1 .. depth -> Frames]
    BY DEF TypeOK
<1>2. /\ stack' \in [1 .. depth' -> Frames] /\ stack'[depth] = f
      /\ \A i \in 1 .. depth : i # depth => stack'[i] = stack[i]
    BY <1>1 DEF Goto
<1>3. ASSUME NEW i \in 1 .. depth PROVE FrameOK(stack'[i], i, depth, p_proc_ready')
  <2>1. CASE i = depth
    BY <1>2, <2>1
  <2>2. CASE i # depth
    <3>1. p_proc_ready' = p_proc_ready
        BY <1>1, <2>2
    <3> QED BY <1>2, <2>2, <3>1 DEF FramesOK
  <2> QED BY <2>1, <2>2
<1>4. FramesOK'
    BY <1>3 DEF FramesOK
<1>5. stack'[1] = IF depth = 1 THEN f ELSE stack[1]
    BY <1>1, <1>2
<1> QED BY <1>2, <1>4, <1>5 DEF Top

\* An activation is added.
LEMMA SaveFrames ==
    ASSUME TypeOK, ReenterIsDepth, Flags, InterruptsAssumption, ~Overwrites,
           NEW f \in Frames, NEW old \in [1 .. depth -> Frames], Save(f, old),
           p_proc_ready' = p_proc_ready, sp0' = sp0,
           f.kind \in {"irq", "call"}, f.pc \in {"args", "body"},
           f.kind = "irq" => f.irq \in Devices /\ f.sys = "none" /\ f.pc = "body",
           f.kind = "call" => f.sys # "none" /\ (depth = 0 \/ f.sys \in Printings)
                              /\ f.pc = "args",
           \A i \in 1 .. depth : /\ FrameOK(old[i], i, depth, p_proc_ready)
                                 /\ old[i].pc \notin {"early", "frame"},
           depth > 0 => /\ old[1].kind = stack[1].kind
                        /\ \/ old[1].pc = stack[1].pc
                           \/ old[1].pc = "spin" /\ stack[1].pc \notin {"restart", "frame"}
    PROVE  /\ depth' = depth + 1
           /\ stack'[depth'] = [f EXCEPT !.ret  = IF depth = 0 THEN "restart" ELSE "reenter",
                                         !.home = IF depth = 0 THEN sp0 ELSE OnStack]
           /\ \A i \in 1 .. depth : stack'[i] = old[i]
           /\ ReenterIsDepth' /\ FramesOK' /\ Flags'
           /\ k_reenter' \in Int /\ sti' \in BOOLEAN
           /\ depth' \in Nat /\ stack' \in [1 .. depth' -> Frames]
           /\ regs' \in [Procs -> [n : {0, 1}, eax : Procs \cup {None}]]
           /\ cpu' \in [proc : Procs \cup {None}, n : {0, 1}, eax : Procs \cup {None}]
<1> DEFINE g == [f EXCEPT !.ret  = IF depth = 0 THEN "restart" ELSE "reenter",
                          !.home = IF depth = 0 THEN sp0 ELSE OnStack]
<1>1. depth \in Nat /\ k_reenter \in Int /\ (k_reenter + 1 = 0 <=> depth = 0)
    BY ReenterZero DEF TypeOK, Overwrites
<1>2. depth = 0 => sp0 \in Procs /\ p_proc_ready = sp0
    BY DEF Flags
<1>3. g \in Frames
    BY <1>2 DEF Frames
<1>4. /\ depth' = depth + 1 /\ k_reenter' = k_reenter + 1
      /\ stack' = [i \in 1 .. depth + 1 |-> IF i = depth + 1 THEN g ELSE old[i]]
      /\ cpu' = NoOne /\ sti' = TRUE
    BY <1>1 DEF Save
<1>5. regs' \in [Procs -> [n : {0, 1}, eax : Procs \cup {None}]]
    BY <1>2 DEF Save, TypeOK
<1>6. \A i \in 1 .. depth + 1 : i = depth + 1 \/ i \in 1 .. depth
    BY <1>1
<1>7. stack' \in [1 .. depth' -> Frames]
    BY <1>3, <1>4, <1>6
<1>8. OnStack \notin Procs
    BY InterruptsAssumption DEF OnStack
<1>9. /\ g.kind = f.kind /\ g.irq = f.irq /\ g.sys = f.sys /\ g.pc = f.pc /\ g.arg = f.arg
      /\ g.ret = IF depth = 0 THEN "restart" ELSE "reenter"
      /\ g.home = IF depth = 0 THEN sp0 ELSE OnStack
    BY DEF Frames
<1> HIDE DEF g
<1>10. stack'[depth'] = g /\ \A i \in 1 .. depth : stack'[i] = old[i]
    BY <1>1, <1>4
<1>11. FrameOK(g, depth + 1, depth + 1, p_proc_ready)
    BY <1>1, <1>2, <1>8, <1>9 DEF FrameOK
<1>12. ASSUME NEW i \in 1 .. depth PROVE FrameOK(old[i], i, depth + 1, p_proc_ready)
    BY <1>1 DEF FrameOK
<1>13. FramesOK'
    BY <1>4, <1>6, <1>10, <1>11, <1>12 DEF FramesOK
<1>14. ReenterIsDepth'
  <2>1. depth = 0 => ~Early' /\ k_reenter' = depth' - 1
    BY <1>1, <1>4, <1>9, <1>10 DEF Early
  <2>2. depth > 0 => stack'[1] = old[1] /\ depth' > 0
    BY <1>1, <1>4, <1>10
  <2>3. depth > 0 => (Early' <=> Early)
    BY <2>2 DEF Early
  <2>4. CASE depth > 0 /\ Early
    <3>1. PICK l \in Leftover : k_reenter = l + depth - 1 /\ \A i \in 1 .. depth - 1 : l + i # 0
        BY <2>4 DEF ReenterIsDepth
    <3>2. l \in Int
        BY InterruptsAssumption
    <3>3. k_reenter' = l + depth' - 1
        BY <1>1, <1>4, <3>1, <3>2
    <3>4. ASSUME NEW i \in 1 .. depth' - 1 PROVE l + i # 0
        BY <1>1, <1>4, <2>4, <3>1, <3>2
    <3> QED BY <2>3, <2>4, <3>3, <3>4 DEF ReenterIsDepth
  <2>5. CASE depth > 0 /\ ~Early
    <3>1. k_reenter = depth - 1
        BY <2>5 DEF ReenterIsDepth
    <3> QED BY <1>1, <1>4, <2>3, <2>5, <3>1 DEF ReenterIsDepth
  <2> QED BY <1>1, <2>1, <2>4, <2>5 DEF ReenterIsDepth
<1>15. stack'[1].kind # "main" => p_proc_ready \in Procs /\ sp0 \in Procs
  <2>1. CASE depth = 0
    BY <1>2, <2>1
  <2>2. CASE depth > 0
    BY <1>1, <1>10, <2>2 DEF Flags
  <2> QED BY <1>1, <2>1, <2>2
<1>16. stack'[1].pc \in {"restart", "frame"} => p_proc_ready \in Procs
  <2>1. CASE depth = 0
    BY <1>2, <2>1
  <2>2. CASE depth > 0
    BY <1>1, <1>10, <2>2 DEF Flags
  <2> QED BY <1>1, <2>1, <2>2
<1>17. Flags'
    BY <1>1, <1>4, <1>9, <1>10, <1>15, <1>16 DEF Flags, Top
<1>18. cpu' \in [proc : Procs \cup {None}, n : {0, 1}, eax : Procs \cup {None}]
    BY <1>4 DEF NoOne
<1> QED BY <1>1, <1>4, <1>5, <1>7, <1>10, <1>13, <1>14, <1>17, <1>18 DEF g

-----------------------------------------------------------------------------
(* Inv1 is preserved                                                       *)

\* The activation that runs.
LEMMA TopOK ==
    ASSUME Inv1, depth > 0
    PROVE  /\ Top \in Frames /\ FrameOK(Top, depth, depth, p_proc_ready)
           /\ (depth = 1 => stack[1] = Top) /\ depth \in Nat
           /\ (Top.ret = "restart" <=> depth = 1)
BY DEF Inv1, TypeOK, FramesOK, Top, FrameOK

\* The newest activation goes on, without leaving the kernel.
LEMMA GotoInv1 ==
    ASSUME InterruptsAssumption, Inv1, depth > 0, NEW f \in Frames, Goto(f),
           f.ret = Top.ret, f.kind = Top.kind, UNCHANGED <<depth, cpu, done>>,
           \/ /\ k_reenter' = k_reenter
              /\ f.kind = "main" => (f.pc \in {"restart", "frame"} <=> Top.pc \in {"restart", "frame"})
           \/ k_reenter' = 0 /\ depth = 1 /\ f.pc = "restart",
           p_proc_ready' = p_proc_ready \/ (depth = 1 /\ p_proc_ready' \in Procs),
           FrameOK(f, depth, depth, p_proc_ready'),
           sp0' \in Procs \cup {None}, sti' \in BOOLEAN, masked' \subseteq Lines, temp' \subseteq Lines,
           regs' \in [Procs -> [n : {0, 1}, eax : Procs \cup {None}]],
           state' \in {"running", "stopped", "wild"},
           ~sti' <=> f.pc = "early" \/ (f.pc = "frame" /\ f.kind # "main"),
           f.pc = "frame" /\ f.ret = "restart" => sp0' = p_proc_ready',
           sp0' = sp0 \/ sp0' \in Procs,
           depth = 1 /\ f.pc \in {"restart", "frame"} => p_proc_ready' \in Procs
    PROVE  Inv1' /\ Top' = f
<1>1. TypeOK /\ FramesOK /\ Flags /\ ReenterIsDepth /\ depth \in Nat
    BY DEF Inv1, TypeOK
<1>2. /\ stack' \in [1 .. depth' -> Frames] /\ FramesOK'
      /\ Top' = f /\ stack'[1] = IF depth = 1 THEN f ELSE stack[1]
    BY <1>1, GotoFrames
<1>3. (depth = 1 => stack[1] = Top)
    BY TopOK
<1>4. p_proc_ready' \in Procs \cup {None} /\ (p_proc_ready \in Procs => p_proc_ready' \in Procs)
    BY <1>1 DEF TypeOK
<1>5. TypeOK'
    BY <1>1, <1>2, <1>4 DEF TypeOK
<1>6. Flags'
    BY <1>1, <1>2, <1>3, <1>4 DEF Flags
<1>7. ReenterIsDepth'
  <2>1. CASE k_reenter' = 0 /\ depth = 1 /\ f.pc = "restart"
    BY <1>2, <2>1 DEF ReenterIsDepth, Early
  <2>2. CASE /\ k_reenter' = k_reenter
             /\ f.kind = "main" => (f.pc \in {"restart", "frame"} <=> Top.pc \in {"restart", "frame"})
    BY <1>1, <1>2, <1>3, <2>2 DEF ReenterIsDepth, Early
  <2> QED BY <2>1, <2>2
<1> QED BY <1>1, <1>2, <1>5, <1>6, <1>7 DEF Inv1

LEMMA HandlerInv1 ==
    ASSUME InterruptsAssumption, Inv1, Handler
    PROVE  Inv1'
<1> DEFINE f == [Top EXCEPT !.pc = "exit"]
<1>1. /\ depth > 0 /\ TypeOK /\ Flags
      /\ Top \in Frames /\ FrameOK(Top, depth, depth, p_proc_ready) /\ depth \in Nat
      /\ (depth = 1 => stack[1] = Top) /\ (Top.ret = "restart" <=> depth = 1)
    BY TopOK DEF Handler, At, Inv1
<1>2. f \in Frames /\ f.pc = "exit" /\ f.ret = Top.ret /\ f.kind = "irq" /\ f.home = Top.home
      /\ f.irq = Top.irq /\ f.sys = Top.sys
    BY <1>1 DEF Handler, Frames
<1>3. p_proc_ready' = p_proc_ready \/ (depth = 1 /\ p_proc_ready' \in Procs)
    BY <1>1, ReenterZero DEF Handler, MaySwitch, Inv1
<1>4. FrameOK(f, depth, depth, p_proc_ready')
    BY <1>1, <1>2 DEF Handler, At, FrameOK
<1>5. ~(Top.pc = "early" \/ Top.pc = "frame") /\ Goto(f) /\ Top.kind = "irq"
    BY DEF Handler, At
<1>6. sti' \in BOOLEAN /\ sti'
    BY <1>1, <1>5 DEF Handler, Flags, TypeOK
<1> HIDE DEF f
<1> QED BY <1>1, <1>2, <1>3, <1>4, <1>5, <1>6, GotoInv1 DEF Handler, TypeOK

LEMMA HandlerExitInv1 ==
    ASSUME InterruptsAssumption, Inv1, HandlerExit
    PROVE  Inv1'
<1> DEFINE f == [Top EXCEPT !.pc = "frame"]
<1>1. /\ depth > 0 /\ TypeOK /\ Flags
      /\ Top \in Frames /\ FrameOK(Top, depth, depth, p_proc_ready) /\ depth \in Nat
      /\ (depth = 1 => stack[1] = Top) /\ (Top.ret = "restart" <=> depth = 1)
    BY TopOK DEF HandlerExit, At, Inv1
<1>2. f \in Frames /\ f.pc = "frame" /\ f.ret = Top.ret /\ f.kind = "irq" /\ f.home = Top.home
      /\ f.irq = Top.irq /\ f.sys = Top.sys
    BY <1>1 DEF HandlerExit, Frames
<1>4. FrameOK(f, depth, depth, p_proc_ready')
    BY <1>1, <1>2 DEF HandlerExit, At, FrameOK
<1>5. Goto(f) /\ Top.kind = "irq" /\ sti' = FALSE /\ sp0' = NewSp0
    BY DEF HandlerExit, Return, Off
<1>6. depth = 1 => p_proc_ready \in Procs /\ sp0 \in Procs
    BY <1>1, <1>5 DEF Flags
<1>7. /\ (f.ret = "restart" => sp0' = p_proc_ready) /\ (sp0' = sp0 \/ sp0' \in Procs)
      /\ sp0' \in Procs \cup {None}
    BY <1>1, <1>2, <1>5, <1>6 DEF NewSp0, TypeOK
<1>8. masked' \subseteq Lines
    BY <1>1 DEF HandlerExit, Unmasked, TypeOK
<1> HIDE DEF f
<1> QED BY <1>1, <1>2, <1>4, <1>5, <1>6, <1>7, <1>8, GotoInv1 DEF HandlerExit, TypeOK

LEMMA PushArgsInv1 ==
    ASSUME InterruptsAssumption, Inv1, PushArgs
    PROVE  Inv1'
<1> DEFINE f == [Top EXCEPT !.arg = p_proc_ready, !.pc = "body"]
<1>1. /\ depth > 0 /\ TypeOK /\ Flags
      /\ Top \in Frames /\ FrameOK(Top, depth, depth, p_proc_ready) /\ depth \in Nat
      /\ (depth = 1 => stack[1] = Top) /\ (Top.ret = "restart" <=> depth = 1)
    BY TopOK DEF PushArgs, At, Inv1
<1>2. f \in Frames /\ f.pc = "body" /\ f.ret = Top.ret /\ f.kind = Top.kind /\ f.home = Top.home
      /\ f.irq = Top.irq /\ f.sys = Top.sys /\ f.arg = p_proc_ready
    BY <1>1 DEF Frames, TypeOK
<1>3. Top.kind = "call" /\ Top.pc = "args" /\ Goto(f)
    BY <1>1 DEF PushArgs, At, FrameOK, Frames
<1>4. FrameOK(f, depth, depth, p_proc_ready')
    BY <1>1, <1>2, <1>3 DEF PushArgs, FrameOK
<1>6. sti' \in BOOLEAN /\ sti'
    BY <1>1, <1>3 DEF PushArgs, Flags, TypeOK
<1> HIDE DEF f
<1> QED BY <1>1, <1>2, <1>3, <1>4, <1>6, GotoInv1 DEF PushArgs, TypeOK

LEMMA CallExitInv1 ==
    ASSUME InterruptsAssumption, Inv1, CallExit
    PROVE  Inv1'
<1> DEFINE f == [Top EXCEPT !.pc = "frame"]
<1>1. /\ depth > 0 /\ TypeOK /\ Flags
      /\ Top \in Frames /\ FrameOK(Top, depth, depth, p_proc_ready) /\ depth \in Nat
      /\ (depth = 1 => stack[1] = Top) /\ (Top.ret = "restart" <=> depth = 1)
    BY TopOK DEF CallExit, At, Inv1
<1>2. f \in Frames /\ f.pc = "frame" /\ f.ret = Top.ret /\ f.kind = "call" /\ f.home = Top.home
      /\ f.irq = Top.irq /\ f.sys = Top.sys /\ f.arg = Top.arg
    BY <1>1 DEF CallExit, Frames
<1>4. FrameOK(f, depth, depth, p_proc_ready')
    BY <1>1, <1>2 DEF CallExit, At, FrameOK
<1>5. Goto(f) /\ Top.kind = "call" /\ sti' = FALSE /\ sp0' = NewSp0
    BY DEF CallExit, Return, Off
<1>6. depth = 1 => p_proc_ready \in Procs /\ sp0 \in Procs
    BY <1>1, <1>5 DEF Flags
<1>7. /\ (f.ret = "restart" => sp0' = p_proc_ready) /\ (sp0' = sp0 \/ sp0' \in Procs)
      /\ sp0' \in Procs \cup {None}
    BY <1>1, <1>2, <1>5, <1>6 DEF NewSp0, TypeOK
<1>8. regs' \in [Procs -> [n : {0, 1}, eax : Procs \cup {None}]]
  <2>1. /\ regs' = ToCaller /\ regs \in [Procs -> [n : {0, 1}, eax : Procs \cup {None}]]
        /\ Top.arg \in Procs \cup {None} /\ Top.home \in Procs \cup {OnStack}
    BY <1>1 DEF CallExit, TypeOK, Frames
  <2>2. CASE Top.home = OnStack
    BY <2>1, <2>2 DEF ToCaller
  <2>3. CASE Top.home # OnStack
    BY <2>1, <2>3 DEF ToCaller
  <2> QED BY <2>2, <2>3
<1> HIDE DEF f
<1> QED BY <1>1, <1>2, <1>4, <1>5, <1>6, <1>7, <1>8, GotoInv1 DEF CallExit, TypeOK

LEMMA BodyInv1 ==
    ASSUME InterruptsAssumption, Inv1, Body
    PROVE  Inv1'
<1> DEFINE f == [Top EXCEPT !.pc = "exit"]
<1>1. /\ depth > 0 /\ TypeOK /\ Flags
      /\ Top \in Frames /\ FrameOK(Top, depth, depth, p_proc_ready) /\ depth \in Nat
      /\ (depth = 1 => stack[1] = Top) /\ (Top.ret = "restart" <=> depth = 1)
    BY TopOK DEF Body, At, Inv1
<1>2. CASE UNCHANGED <<stack, p_proc_ready>>
    BY <1>2 DEF Body, Inv1, TypeOK, ReenterIsDepth, Early, FramesOK, Flags, Top
<1>3. CASE /\ Goto(f) /\ UNCHANGED state
           /\ \/ UNCHANGED p_proc_ready
              \/ Top.sys = "send_rec" /\ p_proc_ready' \in Procs
  <2>2. f \in Frames /\ f.pc = "exit" /\ f.ret = Top.ret /\ f.kind = "call" /\ f.home = Top.home
        /\ f.irq = Top.irq /\ f.sys = Top.sys /\ f.arg = Top.arg
    BY <1>1 DEF Body, Frames
  <2>3. p_proc_ready' = p_proc_ready \/ (depth = 1 /\ p_proc_ready' \in Procs)
    BY <1>1, <1>3 DEF FrameOK, Frames, Printings
  <2>4. FrameOK(f, depth, depth, p_proc_ready')
    BY <1>1, <2>2 DEF Body, At, FrameOK
  <2>5. Goto(f) /\ Top.kind = "call" /\ Top.pc = "body"
    BY <1>3 DEF Body, At
  <2>6. sti' \in BOOLEAN /\ sti'
    BY <1>1, <2>5 DEF Body, Flags, TypeOK
  <2> HIDE DEF f
  <2> QED BY <1>1, <1>3, <2>2, <2>3, <2>4, <2>5, <2>6, GotoInv1 DEF Body, TypeOK
<1> QED BY <1>2, <1>3 DEF Body

LEMMA MainEarlyInv1 ==
    ASSUME InterruptsAssumption, Inv1, MainEarly
    PROVE  Inv1'
<1> DEFINE f == [Top EXCEPT !.pc = "put"]
<1>1. /\ depth > 0 /\ TypeOK /\ Flags
      /\ Top \in Frames /\ FrameOK(Top, depth, depth, p_proc_ready) /\ depth \in Nat
      /\ (depth = 1 => stack[1] = Top) /\ (Top.ret = "restart" <=> depth = 1)
    BY TopOK DEF MainEarly, MainGoto, InMain, At, Inv1
<1>2. /\ Top.kind = "main" /\ Top.pc = "early" /\ Goto(f) /\ depth = 1
      /\ UNCHANGED <<k_reenter, depth, regs, cpu, state, done>>
    BY <1>1 DEF MainEarly, MainGoto, InMain, At, FrameOK
<1>3. f \in Frames /\ f.kind = "main" /\ f.ret = Top.ret /\ f.home = Top.home
      /\ f.sys = Top.sys /\ f.pc = "put"
    BY <1>1, <1>2, InterruptsAssumption DEF Frames
<1>4. FrameOK(f, depth, depth, p_proc_ready')
    BY <1>1, <1>2, <1>3 DEF FrameOK
<1>5. masked' \subseteq Lines /\ sti' \in BOOLEAN /\ sti'
    BY <1>1 DEF MainEarly, TypeOK
<1> HIDE DEF f
<1> QED BY <1>1, <1>2, <1>3, <1>4, <1>5, GotoInv1 DEF MainEarly, MainGoto, TypeOK

LEMMA MainPutInv1 ==
    ASSUME InterruptsAssumption, Inv1, MainPut
    PROVE  Inv1'
<1> DEFINE f == [Top EXCEPT !.pc = "mask"]
<1>1. /\ depth > 0 /\ TypeOK /\ Flags
      /\ Top \in Frames /\ FrameOK(Top, depth, depth, p_proc_ready) /\ depth \in Nat
      /\ (depth = 1 => stack[1] = Top) /\ (Top.ret = "restart" <=> depth = 1)
    BY TopOK DEF MainPut, MainGoto, InMain, At, Inv1
<1>2. /\ Top.kind = "main" /\ Top.pc = "put" /\ Goto(f) /\ depth = 1
      /\ UNCHANGED <<k_reenter, depth, regs, cpu, state, done>>
    BY <1>1 DEF MainPut, MainGoto, InMain, At, FrameOK
<1>3. f \in Frames /\ f.kind = "main" /\ f.ret = Top.ret /\ f.home = Top.home
      /\ f.sys = Top.sys /\ f.pc = "mask"
    BY <1>1, <1>2, InterruptsAssumption DEF Frames
<1>4. FrameOK(f, depth, depth, p_proc_ready')
    BY <1>1, <1>2, <1>3 DEF FrameOK
<1>5. temp' \subseteq Lines /\ sti' \in BOOLEAN /\ sti'
    BY <1>1, <1>2 DEF MainPut, Flags, TypeOK
<1> HIDE DEF f
<1> QED BY <1>1, <1>2, <1>3, <1>4, <1>5, GotoInv1 DEF MainPut, MainGoto, TypeOK

LEMMA MainMaskInv1 ==
    ASSUME InterruptsAssumption, Inv1, MainMask
    PROVE  Inv1'
<1> DEFINE f == [Top EXCEPT !.pc = "late"]
<1>1. /\ depth > 0 /\ TypeOK /\ Flags
      /\ Top \in Frames /\ FrameOK(Top, depth, depth, p_proc_ready) /\ depth \in Nat
      /\ (depth = 1 => stack[1] = Top) /\ (Top.ret = "restart" <=> depth = 1)
    BY TopOK DEF MainMask, MainGoto, InMain, At, Inv1
<1>2. /\ Top.kind = "main" /\ Top.pc = "mask" /\ Goto(f) /\ depth = 1
      /\ UNCHANGED <<k_reenter, depth, regs, cpu, state, done>>
    BY <1>1 DEF MainMask, MainGoto, InMain, At, FrameOK
<1>3. f \in Frames /\ f.kind = "main" /\ f.ret = Top.ret /\ f.home = Top.home
      /\ f.sys = Top.sys /\ f.pc = "late"
    BY <1>1, <1>2, InterruptsAssumption DEF Frames
<1>4. FrameOK(f, depth, depth, p_proc_ready')
    BY <1>1, <1>2, <1>3 DEF FrameOK
<1>5. temp' \subseteq Lines /\ masked' \subseteq Lines /\ sti' \in BOOLEAN /\ sti'
  <2>1. LateLines \subseteq Lines
    BY InterruptsAssumption
  <2> QED BY <1>1, <1>2, <2>1 DEF MainMask, Flags, TypeOK
<1> HIDE DEF f
<1> QED BY <1>1, <1>2, <1>3, <1>4, <1>5, GotoInv1 DEF MainMask, MainGoto, TypeOK

LEMMA MainReadInv1 ==
    ASSUME InterruptsAssumption, Inv1, NEW l \in LateLines, MainRead(l)
    PROVE  Inv1'
<1> DEFINE f == [Top EXCEPT !.pc = "write", !.irq = l]
<1>1. /\ depth > 0 /\ TypeOK /\ Flags
      /\ Top \in Frames /\ FrameOK(Top, depth, depth, p_proc_ready) /\ depth \in Nat
      /\ (depth = 1 => stack[1] = Top) /\ (Top.ret = "restart" <=> depth = 1)
    BY TopOK DEF MainRead, MainGoto, InMain, At, Inv1
<1>2. /\ Top.kind = "main" /\ Top.pc = "late" /\ Goto(f) /\ depth = 1
      /\ UNCHANGED <<k_reenter, depth, regs, cpu, state, done>>
    BY <1>1 DEF MainRead, MainGoto, InMain, At, FrameOK
<1>3. f \in Frames /\ f.kind = "main" /\ f.ret = Top.ret /\ f.home = Top.home
      /\ f.sys = Top.sys /\ f.pc = "write" /\ f.irq = l
    BY <1>1, <1>2, InterruptsAssumption DEF Frames
<1>4. FrameOK(f, depth, depth, p_proc_ready')
    BY <1>1, <1>2, <1>3 DEF FrameOK
<1>5. temp' \subseteq Lines /\ sti' \in BOOLEAN /\ sti'
    BY <1>1, <1>2 DEF MainRead, Flags, TypeOK
<1> HIDE DEF f
<1> QED BY <1>1, <1>2, <1>3, <1>4, <1>5, GotoInv1 DEF MainRead, MainGoto, TypeOK

LEMMA MainWriteInv1 ==
    ASSUME InterruptsAssumption, Inv1, MainWrite
    PROVE  Inv1'
<1> DEFINE f == [Top EXCEPT !.pc = "late"]
<1>1. /\ depth > 0 /\ TypeOK /\ Flags
      /\ Top \in Frames /\ FrameOK(Top, depth, depth, p_proc_ready) /\ depth \in Nat
      /\ (depth = 1 => stack[1] = Top) /\ (Top.ret = "restart" <=> depth = 1)
    BY TopOK DEF MainWrite, MainGoto, InMain, At, Inv1
<1>2. /\ Top.kind = "main" /\ Top.pc = "write" /\ Goto(f) /\ depth = 1
      /\ UNCHANGED <<k_reenter, depth, regs, cpu, state, done>>
    BY <1>1 DEF MainWrite, MainGoto, InMain, At, FrameOK
<1>3. f \in Frames /\ f.kind = "main" /\ f.ret = Top.ret /\ f.home = Top.home
      /\ f.sys = Top.sys /\ f.pc = "late"
    BY <1>1, <1>2, InterruptsAssumption DEF Frames
<1>4. FrameOK(f, depth, depth, p_proc_ready')
    BY <1>1, <1>2, <1>3 DEF FrameOK
<1>5. temp' \subseteq Lines /\ masked' \subseteq Lines /\ sti' \in BOOLEAN /\ sti'
    BY <1>1, <1>2 DEF MainWrite, Flags, TypeOK
<1> HIDE DEF f
<1> QED BY <1>1, <1>2, <1>3, <1>4, <1>5, GotoInv1 DEF MainWrite, MainGoto, TypeOK

LEMMA MainTableInv1 ==
    ASSUME InterruptsAssumption, Inv1, MainTable
    PROVE  Inv1'
<1> DEFINE f == [Top EXCEPT !.pc = "restart"]
<1>1. /\ depth > 0 /\ TypeOK /\ Flags
      /\ Top \in Frames /\ FrameOK(Top, depth, depth, p_proc_ready) /\ depth \in Nat
      /\ (depth = 1 => stack[1] = Top) /\ (Top.ret = "restart" <=> depth = 1)
    BY TopOK DEF MainTable, MainGoto, InMain, At, Inv1
<1>2. /\ Top.kind = "main" /\ Top.pc = "late" /\ Goto(f) /\ depth = 1
      /\ UNCHANGED <<depth, regs, cpu, state, done>> /\ k_reenter' = 0
    BY <1>1 DEF MainTable, MainGoto, InMain, At, FrameOK
<1>3. f \in Frames /\ f.kind = "main" /\ f.ret = Top.ret /\ f.home = Top.home
      /\ f.sys = Top.sys /\ f.pc = "restart"
    BY <1>1, <1>2, InterruptsAssumption DEF Frames
<1>4. FrameOK(f, depth, depth, p_proc_ready')
    BY <1>1, <1>2, <1>3 DEF FrameOK
<1>5. p_proc_ready' \in Procs /\ sti' \in BOOLEAN /\ sti'
    BY <1>1, <1>2, InterruptsAssumption DEF MainTable, Flags, TypeOK
<1> HIDE DEF f
<1> QED BY <1>1, <1>2, <1>3, <1>4, <1>5, GotoInv1 DEF MainTable, MainGoto, TypeOK

LEMMA MainRestartInv1 ==
    ASSUME InterruptsAssumption, Inv1, MainRestart
    PROVE  Inv1'
<1> DEFINE f == [Top EXCEPT !.pc = "frame"]
<1>1. /\ depth > 0 /\ TypeOK /\ Flags
      /\ Top \in Frames /\ FrameOK(Top, depth, depth, p_proc_ready) /\ depth \in Nat
      /\ (depth = 1 => stack[1] = Top) /\ (Top.ret = "restart" <=> depth = 1)
    BY TopOK DEF MainRestart, MainGoto, InMain, At, Inv1
<1>2. /\ Top.kind = "main" /\ Top.pc = "restart" /\ Goto(f) /\ depth = 1
      /\ UNCHANGED <<k_reenter, depth, regs, cpu, state, done>>
    BY <1>1 DEF MainRestart, MainGoto, InMain, At, FrameOK
<1>3. f \in Frames /\ f.kind = "main" /\ f.ret = Top.ret /\ f.home = Top.home
      /\ f.sys = Top.sys /\ f.pc = "frame"
    BY <1>1, <1>2, InterruptsAssumption DEF Frames
<1>4. FrameOK(f, depth, depth, p_proc_ready')
    BY <1>1, <1>2, <1>3 DEF FrameOK
<1>5. sp0' = p_proc_ready' /\ p_proc_ready' \in Procs /\ sti' \in BOOLEAN /\ sti'
    BY <1>1, <1>2 DEF MainRestart, Flags, TypeOK
<1> HIDE DEF f
<1> QED BY <1>1, <1>2, <1>3, <1>4, <1>5, GotoInv1 DEF MainRestart, MainGoto, TypeOK

LEMMA DevicesAreLines == Devices \subseteq Lines /\ EarlyLines \cup LateLines \subseteq Lines
<1>1. Master \subseteq Lines
    BY DEF Master, Lines
<1> QED BY <1>1, InterruptsAssumption DEF Devices

\* The activation that handles a line.
LineFrame(l) == [kind |-> "irq", irq |-> l, sys |-> "none", pc |-> "body",
                 home |-> OnStack, ret |-> "reenter", arg |-> None]

LEMMA LineFrameOK ==
    ASSUME NEW l \in Devices
    PROVE  /\ LineFrame(l) \in Frames /\ LineFrame(l).kind = "irq" /\ LineFrame(l).irq = l
           /\ LineFrame(l).sys = "none" /\ LineFrame(l).pc = "body"
BY DevicesAreLines DEF LineFrame, Frames

LEMMA InterruptSaves ==
    ASSUME InterruptsAssumption, Inv1, NEW l \in Devices, Save(LineFrame(l), stack),
           ~At("frame"), ~Overwrites, state = "running", sti, UNCHANGED <<p_proc_ready, sp0>>
    PROVE  /\ depth' = depth + 1 /\ depth \in Nat
           /\ stack'[depth'] = [LineFrame(l) EXCEPT !.ret  = IF depth = 0 THEN "restart" ELSE "reenter",
                                                    !.home = IF depth = 0 THEN sp0 ELSE OnStack]
           /\ \A i \in 1 .. depth : stack'[i] = stack[i] /\ stack[i].pc \notin {"early", "frame"}
           /\ ReenterIsDepth' /\ FramesOK' /\ Flags'
           /\ k_reenter' \in Int /\ sti' \in BOOLEAN
           /\ depth' \in Nat /\ stack' \in [1 .. depth' -> Frames]
           /\ regs' \in [Procs -> [n : {0, 1}, eax : Procs \cup {None}]]
           /\ cpu' \in [proc : Procs \cup {None}, n : {0, 1}, eax : Procs \cup {None}]
<1>1. TypeOK /\ ReenterIsDepth /\ FramesOK /\ Flags /\ depth \in Nat
      /\ stack \in [1 .. depth -> Frames]
    BY DEF Inv1, TypeOK
<1>2. \A i \in 1 .. depth : FrameOK(stack[i], i, depth, p_proc_ready)
    BY <1>1 DEF FramesOK
<1>3. \A i \in 1 .. depth : stack[i].pc \notin {"early", "frame"}
    BY <1>1, <1>2 DEF FrameOK, Flags, At, Top
<1>4. \A i \in 1 .. depth : /\ FrameOK(stack[i], i, depth, p_proc_ready)
                            /\ stack[i].pc \notin {"early", "frame"}
    BY <1>2, <1>3
<1> DEFINE f == LineFrame(l)
<1>5. f \in Frames /\ f.kind = "irq" /\ f.irq = l /\ f.sys = "none" /\ f.pc = "body"
    BY LineFrameOK
<1>6. Save(f, stack)
    OBVIOUS
<1>7. /\ depth' = depth + 1
      /\ stack'[depth'] = [f EXCEPT !.ret  = IF depth = 0 THEN "restart" ELSE "reenter",
                                    !.home = IF depth = 0 THEN sp0 ELSE OnStack]
      /\ \A i \in 1 .. depth : stack'[i] = stack[i]
      /\ ReenterIsDepth' /\ FramesOK' /\ Flags'
      /\ k_reenter' \in Int /\ sti' \in BOOLEAN
      /\ depth' \in Nat /\ stack' \in [1 .. depth' -> Frames]
      /\ regs' \in [Procs -> [n : {0, 1}, eax : Procs \cup {None}]]
      /\ cpu' \in [proc : Procs \cup {None}, n : {0, 1}, eax : Procs \cup {None}]
  <2> HIDE DEF f
  <2> QED BY <1>1, <1>4, <1>5, <1>6, SaveFrames
<1> QED BY <1>1, <1>3, <1>7

LEMMA InterruptInv1 ==
    ASSUME InterruptsAssumption, Inv1, NEW l \in Devices, Interrupt(l)
    PROVE  Inv1'
<1>1. TypeOK /\ ReenterIsDepth /\ FramesOK /\ Flags /\ depth \in Nat
    BY DEF Inv1, TypeOK
<1>2. CASE Wild /\ UNCHANGED masked
    BY <1>2 DEF Interrupt, Wild, Inv1, TypeOK, ReenterIsDepth, Early, FramesOK, Flags, Top
<1>3. CASE ~At("frame") /\ ~Overwrites /\ state = "running" /\ sti
  <2>1. Save(LineFrame(l), stack) /\ masked' = Masked(l) /\ state' = state
        /\ UNCHANGED <<p_proc_ready, sp0, temp, done>>
    BY <1>3 DEF Interrupt, LineFrame
  <2>2. /\ ReenterIsDepth' /\ FramesOK' /\ Flags'
        /\ k_reenter' \in Int /\ sti' \in BOOLEAN
        /\ depth' \in Nat /\ stack' \in [1 .. depth' -> Frames]
        /\ regs' \in [Procs -> [n : {0, 1}, eax : Procs \cup {None}]]
        /\ cpu' \in [proc : Procs \cup {None}, n : {0, 1}, eax : Procs \cup {None}]
    BY <1>3, <2>1, InterruptSaves
  <2>3. masked' \subseteq Lines
    BY <1>1, <2>1, DevicesAreLines DEF TypeOK, Masked
  <2> QED BY <1>1, <2>1, <2>2, <2>3 DEF Inv1, TypeOK
<1> QED BY <1>2, <1>3 DEF Interrupt

\* A call, whether from a process or for the kernel's printing.
LEMMA CallFrame ==
    ASSUME NEW s \in SysCalls \cup Printings, InterruptsAssumption
    PROVE  /\ Call(s) \in Frames /\ Call(s).kind = "call" /\ Call(s).pc = "args"
           /\ Call(s).sys = s /\ s # "none"
BY InterruptsAssumption DEF Call, Frames, Printings

LEMMA SysCallInv1 ==
    ASSUME InterruptsAssumption, Inv1, NEW s \in SysCalls, SysCall(s)
    PROVE  Inv1'
<1>1. TypeOK /\ ReenterIsDepth /\ FramesOK /\ Flags /\ depth = 0
    BY DEF Inv1, SysCall, AtUser
<1>2. Save(Call(s), stack) /\ UNCHANGED <<p_proc_ready, sp0, masked, temp, state, done>>
    BY DEF SysCall
<1>3. stack \in [1 .. depth -> Frames] /\ 1 .. depth = {} /\ ~Overwrites
    BY <1>1 DEF TypeOK, Overwrites
<1>4. /\ ReenterIsDepth' /\ FramesOK' /\ Flags'
      /\ k_reenter' \in Int /\ sti' \in BOOLEAN
      /\ depth' \in Nat /\ stack' \in [1 .. depth' -> Frames]
      /\ regs' \in [Procs -> [n : {0, 1}, eax : Procs \cup {None}]]
      /\ cpu' \in [proc : Procs \cup {None}, n : {0, 1}, eax : Procs \cup {None}]
  <2> DEFINE f == Call(s)
  <2>1. f \in Frames /\ f.kind = "call" /\ f.pc = "args" /\ f.sys # "none" /\ Save(f, stack)
    BY <1>2, CallFrame
  <2> HIDE DEF f
  <2> QED BY <1>1, <1>2, <1>3, <2>1, SaveFrames
<1> QED BY <1>1, <1>2, <1>4 DEF Inv1, TypeOK

\* The kernel prints, and goes on where it was or spins.
LEMMA NestedInv1 ==
    ASSUME InterruptsAssumption, Inv1, NEW s \in Printings, NEW pc, Nested(s, pc),
           depth > 0, Top.pc \in {"body", "put"}, pc \in {Top.pc, "spin"}
    PROVE  Inv1'
<1> DEFINE old == [stack EXCEPT ![depth].pc = pc]
<1>0. CASE Wild
    BY <1>0 DEF Nested, Wild, Inv1, TypeOK, ReenterIsDepth, Early, FramesOK, Flags, Top
<1> SUFFICES ASSUME ~Overwrites, Save(Call(s), old), state' = state PROVE Inv1'
    BY <1>0 DEF Nested
<1>1. /\ depth > 0 /\ TypeOK /\ Flags /\ ReenterIsDepth /\ FramesOK
      /\ Top \in Frames /\ FrameOK(Top, depth, depth, p_proc_ready) /\ depth \in Nat
      /\ (depth = 1 => stack[1] = Top) /\ stack \in [1 .. depth -> Frames]
    BY TopOK DEF Inv1, TypeOK
<1>2. /\ Save(Call(s), old) /\ UNCHANGED <<p_proc_ready, sp0, masked, temp, state, done>>
      /\ Top.pc \in {"body", "put"} /\ (Top.pc = "put" => Top.kind = "main")
    BY <1>1 DEF Nested, FrameOK, Frames
<1>3. /\ old \in [1 .. depth -> Frames] /\ old[depth] = [Top EXCEPT !.pc = pc]
      /\ \A i \in 1 .. depth : i # depth => old[i] = stack[i]
    BY <1>1 DEF Frames, Top
<1>4. /\ old[depth].kind = Top.kind /\ old[depth].irq = Top.irq /\ old[depth].sys = Top.sys
      /\ old[depth].pc = pc /\ old[depth].home = Top.home /\ old[depth].ret = Top.ret
      /\ old[depth].arg = Top.arg
    BY <1>1, <1>3 DEF Frames
<1> HIDE DEF old
<1>5. FrameOK(old[depth], depth, depth, p_proc_ready)
    BY <1>1, <1>2, <1>4 DEF FrameOK
<1>6. \A i \in 1 .. depth : FrameOK(old[i], i, depth, p_proc_ready)
    BY <1>1, <1>3, <1>5 DEF FramesOK
<1>7. \A i \in 1 .. depth : old[i].pc \notin {"early", "frame"}
    BY <1>4, <1>6 DEF FrameOK
<1>8. /\ old[1].kind = stack[1].kind
      /\ \/ old[1].pc = stack[1].pc
         \/ old[1].pc = "spin" /\ stack[1].pc \notin {"restart", "frame"}
  <2>1. CASE depth = 1
    BY <1>1, <1>2, <1>4, <2>1
  <2>2. CASE depth # 1
    BY <1>1, <1>3, <2>2
  <2> QED BY <2>1, <2>2
<1>9. /\ ReenterIsDepth' /\ FramesOK' /\ Flags'
      /\ k_reenter' \in Int /\ sti' \in BOOLEAN
      /\ depth' \in Nat /\ stack' \in [1 .. depth' -> Frames]
      /\ regs' \in [Procs -> [n : {0, 1}, eax : Procs \cup {None}]]
      /\ cpu' \in [proc : Procs \cup {None}, n : {0, 1}, eax : Procs \cup {None}]
  <2> DEFINE f == Call(s)
  <2>1. f \in Frames /\ f.kind = "call" /\ f.pc = "args" /\ f.sys = s /\ s # "none"
        /\ Save(f, old)
    BY <1>2, CallFrame
  <2>2. \A i \in 1 .. depth : /\ FrameOK(old[i], i, depth, p_proc_ready)
                              /\ old[i].pc \notin {"early", "frame"}
    BY <1>6, <1>7
  <2> HIDE DEF f
  <2> QED BY <1>1, <1>2, <1>3, <1>8, <2>1, <2>2, SaveFrames
<1> QED BY <1>1, <1>2, <1>9 DEF Inv1, TypeOK

LEMMA KernelAssertInv1 ==
    ASSUME InterruptsAssumption, Inv1, KernelAssert PROVE Inv1'
<1>1. depth > 0 /\ Top.pc \in {"body", "put"} /\ Nested("assert", "spin")
    BY DEF KernelAssert, InMain, At
<1> QED BY <1>1, NestedInv1 DEF Printings

LEMMA KernelPrintInv1 ==
    ASSUME InterruptsAssumption, Inv1, KernelPrint PROVE Inv1'
<1>1. depth > 0 /\ Top.pc = "body" /\ (Nested("print", "body") \/ Nested("panic", "spin"))
    BY DEF KernelPrint, At
<1> QED BY <1>1, NestedInv1 DEF Printings

LEMMA IretInv1 ==
    ASSUME InterruptsAssumption, Inv1, Iret
    PROVE  Inv1'
<1> DEFINE left == IF Top.ret = "restart" THEN 0 ELSE depth - 1
<1>1. /\ depth > 0 /\ TypeOK /\ Flags /\ FramesOK
      /\ Top \in Frames /\ FrameOK(Top, depth, depth, p_proc_ready) /\ depth \in Nat
      /\ (depth = 1 => stack[1] = Top) /\ (Top.ret = "restart" <=> depth = 1)
      /\ stack \in [1 .. depth -> Frames] /\ Top.pc = "frame" /\ ReenterIsDepth
      /\ k_reenter \in Int
    BY TopOK DEF Iret, At, Inv1, TypeOK
<1>2. /\ left = depth - 1 /\ depth' = depth - 1 /\ k_reenter' = k_reenter - 1 /\ sti' = TRUE
      /\ stack' = [i \in 1 .. depth - 1 |-> stack[i]]
      /\ cpu' = IF depth = 1
                THEN [proc |-> p_proc_ready, n |-> regs[p_proc_ready].n, eax |-> regs[p_proc_ready].eax]
                ELSE cpu
      /\ UNCHANGED <<p_proc_ready, sp0, regs, masked, temp, state, done>>
    BY <1>1 DEF Iret, LevelAfter
<1>3. depth = 1 => p_proc_ready \in Procs /\ sp0 = p_proc_ready
    BY <1>1 DEF Flags
<1>4. stack' \in [1 .. depth' -> Frames]
    BY <1>1, <1>2
<1>5. cpu' \in [proc : Procs \cup {None}, n : {0, 1}, eax : Procs \cup {None}]
    BY <1>1, <1>2, <1>3 DEF TypeOK
<1>6. TypeOK'
    BY <1>1, <1>2, <1>4, <1>5 DEF TypeOK
<1>7. \A i \in 1 .. depth - 1 : /\ i \in 1 .. depth /\ stack'[i] = stack[i]
                                /\ FrameOK(stack[i], i, depth, p_proc_ready)
    BY <1>1, <1>2 DEF FramesOK
<1>8. \A i \in 1 .. depth - 1 : FrameOK(stack'[i], i, depth - 1, p_proc_ready)
                                /\ stack'[i].pc \notin {"early", "frame"}
    BY <1>1, <1>7 DEF FrameOK
<1>9. FramesOK'
    BY <1>2, <1>8 DEF FramesOK
<1>10. ReenterIsDepth'
  <2>1. CASE depth = 1
    BY <1>1, <1>2, <2>1 DEF ReenterIsDepth, Early
  <2>2. CASE depth > 1
    <3>1. stack'[1] = stack[1] /\ (Early' <=> Early)
        BY <1>1, <1>2, <2>2 DEF Early
    <3>2. CASE Early
      <4>1. PICK l \in Leftover : k_reenter = l + depth - 1 /\ \A i \in 1 .. depth - 1 : l + i # 0
        BY <1>1, <3>2 DEF ReenterIsDepth
      <4>2. l \in Int
        BY InterruptsAssumption
      <4>3. k_reenter' = l + depth' - 1
        BY <1>1, <1>2, <4>1, <4>2
      <4>4. ASSUME NEW i \in 1 .. depth' - 1 PROVE l + i # 0
        BY <1>1, <1>2, <4>1
      <4> QED BY <3>1, <3>2, <4>3, <4>4 DEF ReenterIsDepth
    <3>3. CASE ~Early
        BY <1>1, <1>2, <3>1, <3>3 DEF ReenterIsDepth
    <3> QED BY <3>2, <3>3
  <2> QED BY <1>1, <2>1, <2>2
<1>11. Flags'
  <2>1. CASE depth = 1
    BY <1>2, <1>3, <2>1 DEF Flags
  <2>2. CASE depth > 1
    <3>1. depth - 1 \in 1 .. depth - 1 /\ 1 \in 1 .. depth - 1
        BY <1>1, <2>2
    <3>2. Top' = stack'[depth - 1] /\ Top'.pc \notin {"early", "frame"}
          /\ stack'[1] = stack[1] /\ cpu' = NoOne
        BY <1>1, <1>2, <1>8, <1>7, <2>2, <3>1 DEF Top, Flags
    <3> QED BY <1>1, <1>2, <1>7, <2>2, <3>1, <3>2 DEF Flags
  <2> QED BY <1>1, <2>1, <2>2
<1> QED BY <1>6, <1>9, <1>10, <1>11 DEF Inv1

LEMMA UserStepInv1 ==
    ASSUME Inv1, UserStep
    PROVE  Inv1'
<1>1. TypeOK /\ Flags /\ depth = 0 /\ depth' = 0 /\ cpu.proc \in Procs
    BY DEF Inv1, UserStep, AtUser, Flags
<1>2. /\ cpu' \in [proc : Procs \cup {None}, n : {0, 1}, eax : Procs \cup {None}]
      /\ cpu'.proc = cpu.proc
    BY <1>1 DEF UserStep, TypeOK
<1>3. done' \in [Procs -> {0, 1}]
    BY <1>1 DEF UserStep, TypeOK
<1>4. TypeOK'
    BY <1>1, <1>2, <1>3 DEF UserStep, TypeOK
<1> QED BY <1>1, <1>2, <1>4 DEF UserStep, Inv1, Flags, FramesOK, ReenterIsDepth, Early

LEMMA NextInv1 == Inv1 /\ [Next]_vars => Inv1'
<1> SUFFICES ASSUME Inv1, [Next]_vars PROVE Inv1'
    OBVIOUS
<1> USE InterruptsAssumption
<1>1. CASE UNCHANGED vars
    BY <1>1 DEF vars, Inv1, TypeOK, ReenterIsDepth, Early, FramesOK, Flags, Top
<1>2. ASSUME NEW l \in Devices, Interrupt(l) PROVE Inv1'
    BY <1>2, InterruptInv1
<1>3. ASSUME NEW s \in SysCalls, SysCall(s) PROVE Inv1'
    BY <1>3, SysCallInv1
<1>4. ASSUME NEW l \in LateLines, MainRead(l) PROVE Inv1'
    BY <1>4, MainReadInv1
<1>5. CASE Halted
    BY <1>1, <1>5 DEF Halted
<1> QED BY <1>1, <1>2, <1>3, <1>4, <1>5, HandlerInv1, HandlerExitInv1, KernelAssertInv1,
           KernelPrintInv1, PushArgsInv1, BodyInv1, CallExitInv1, IretInv1, MainEarlyInv1,
           MainPutInv1, MainMaskInv1, MainWriteInv1, MainTableInv1, MainRestartInv1, UserStepInv1 DEF Next

-----------------------------------------------------------------------------
(* The activations of the lines and of printing                            *)

\* A line has one activation at most, and nothing is printed by what prints.
NestOK ==
    /\ \A i, j \in 1 .. depth :
          stack[i].kind = "irq" /\ stack[j].kind = "irq" /\ stack[i].irq = stack[j].irq
              => i = j
    /\ \A i \in 1 .. depth :
          stack[i].kind = "call" /\ i > 1 => stack[i - 1].sys \notin Printings

Base == Lines \ (EarlyLines \cup LateLines)

\* What is masked: of the lines the code uses those that are handled, and before
\* kernel_main has enabled it any of LateLines.
Enabled == depth = 0 \/ stack[1].kind # "main" \/ stack[1].pc \in {"restart", "frame"}
MaskOK ==
    /\ Base \cup Handled \subseteq masked
    /\ depth = 0 \/ stack[1].pc # "early" => masked \subseteq Base \cup Handled \cup LateLines
    /\ Enabled => masked \subseteq Base \cup Handled
    /\ depth > 0 /\ stack[1].kind = "main" /\ stack[1].pc = "write" =>
          /\ Base \cap Register(stack[1].irq) \subseteq temp
          /\ temp \subseteq Base \cup LateLines
    /\ depth > 0 /\ stack[1].kind = "main" /\ stack[1].pc = "mask" =>
          /\ Base \ Master \subseteq temp
          /\ temp \subseteq Base \cup LateLines

Inv2 == NestOK /\ MaskOK

LEMMA InitInv2 == Init => Inv2
<1> SUFFICES ASSUME Init PROVE Inv2
    OBVIOUS
<1>1. depth = 1 /\ stack[1].kind = "main" /\ stack[1].pc = "early" /\ masked = Lines
      /\ \A i \in 1 .. depth : i = 1
    BY DEF Init, MainFrame
<1>2. Handled = {}
    BY <1>1 DEF Handled
<1> QED BY <1>1, <1>2 DEF Inv2, NestOK, MaskOK, Base, Enabled

\* An activation keeps its line and its call.
LEMMA GotoNest ==
    ASSUME Inv1, NestOK, depth > 0, NEW f \in Frames, Goto(f), depth' = depth,
           f.kind = Top.kind, f.sys = Top.sys, f.kind = "irq" => f.irq = Top.irq
    PROVE  /\ NestOK'
           /\ (f.kind = "irq" => f.pc # "frame" /\ Top.pc # "frame") => Handled' = Handled
           /\ f.kind = "irq" /\ f.pc = "frame" => Handled' = Handled \ {f.irq}
<1>1. depth \in Nat \ {0} /\ stack \in [1 .. depth -> Frames] /\ depth \in 1 .. depth
    BY DEF Inv1, TypeOK
<1>2. /\ stack'[depth] = f /\ stack[depth] = Top
      /\ \A i \in 1 .. depth : i # depth => stack'[i] = stack[i]
    BY <1>1 DEF Goto, Top
<1>3. \A i \in 1 .. depth : /\ stack'[i].kind = stack[i].kind /\ stack'[i].sys = stack[i].sys
                            /\ (stack[i].kind = "irq" => stack'[i].irq = stack[i].irq)
    BY <1>1, <1>2
<1>4. NestOK'
  <2>1. \A i \in 1 .. depth : i > 1 => i - 1 \in 1 .. depth
    BY <1>1
  <2> QED BY <1>1, <1>3, <2>1 DEF NestOK
<1>5. ASSUME f.kind = "irq" => f.pc # "frame" /\ Top.pc # "frame"
      PROVE  Handled' = Handled
  <2>1. \A i \in 1 .. depth : stack[i].kind = "irq" =>
            (stack'[i].pc # "frame" <=> stack[i].pc # "frame")
    BY <1>1, <1>2, <1>5
  <2> QED BY <1>3, <2>1 DEF Handled
<1>6. ASSUME f.kind = "irq", f.pc = "frame" PROVE Handled' = Handled \ {f.irq}
  <2>1. \A i \in 1 .. depth : i # depth /\ stack[i].kind = "irq" => stack[i].irq # f.irq
    BY <1>1, <1>2, <1>6 DEF NestOK
  <2>2. ASSUME NEW i \in 1 .. depth, stack'[i].kind = "irq", stack'[i].pc # "frame"
        PROVE  stack'[i].irq \in Handled \ {f.irq}
    BY <1>2, <1>6, <2>1, <2>2 DEF Handled
  <2>3. ASSUME NEW i \in 1 .. depth, stack[i].kind = "irq", stack[i].pc # "frame",
               stack[i].irq # f.irq
        PROVE  stack[i].irq \in Handled'
    BY <1>2, <1>6, <2>3 DEF Handled
  <2> QED BY <2>2, <2>3 DEF Handled
<1> QED BY <1>4, <1>5, <1>6

\* An activation g is added, on top of activations that keep line and call.
LEMMA SaveNest ==
    ASSUME Inv1, NestOK, depth \in Nat, depth' = depth + 1, NEW g, stack'[depth'] = g,
           \A i \in 1 .. depth : /\ stack'[i].kind = stack[i].kind /\ stack'[i].irq = stack[i].irq
                                 /\ stack'[i].sys = stack[i].sys
                                 /\ (stack'[i].pc = "frame" <=> stack[i].pc = "frame"),
           g.pc # "frame",
           g.kind = "irq" => \A i \in 1 .. depth : stack[i].kind = "irq" => stack[i].irq # g.irq,
           g.kind = "call" /\ depth > 0 => Top.sys \notin Printings
    PROVE  /\ NestOK'
           /\ Handled' = Handled \cup (IF g.kind = "irq" THEN {g.irq} ELSE {})
<1>1. \A i \in 1 .. depth' : i = depth + 1 \/ i \in 1 .. depth
    OBVIOUS
<1>2. \A i \in 1 .. depth : i \in 1 .. depth' /\ i # depth + 1
    OBVIOUS
<1>3. depth + 1 \in 1 .. depth' /\ stack'[depth + 1] = g
    OBVIOUS
<1>4. NestOK'
  <2>1. ASSUME NEW i \in 1 .. depth', NEW j \in 1 .. depth', stack'[i].kind = "irq",
               stack'[j].kind = "irq", stack'[i].irq = stack'[j].irq
        PROVE  i = j
    BY <1>1, <1>3, <2>1 DEF NestOK
  <2>2. ASSUME NEW i \in 1 .. depth', stack'[i].kind = "call", i > 1
        PROVE  stack'[i - 1].sys \notin Printings
    <3>1. i - 1 \in 1 .. depth
        BY <2>2
    <3>2. CASE i = depth + 1
        BY <1>3, <2>2, <3>1, <3>2 DEF Top
    <3>3. CASE i \in 1 .. depth
        BY <2>2, <3>1, <3>3 DEF NestOK
    <3> QED BY <1>1, <3>2, <3>3
  <2> QED BY <2>1, <2>2 DEF NestOK
<1>5. \A x \in Handled' : x \in Handled \cup (IF g.kind = "irq" THEN {g.irq} ELSE {})
    BY <1>1, <1>3 DEF Handled
<1>6. \A x \in Handled : x \in Handled'
    BY <1>2 DEF Handled
<1>7. g.kind = "irq" => g.irq \in Handled'
    BY <1>3 DEF Handled
<1> QED BY <1>4, <1>5, <1>6, <1>7

-----------------------------------------------------------------------------
(* Inv2 is preserved                                                       *)

\* Steps that enable no line and disable none.
LEMMA SameMask ==
    ASSUME MaskOK, NestOK', UNCHANGED <<masked, temp>>, Handled' = Handled,
           depth \in Nat, depth' \in Nat, depth > 0 => depth' > 0,
           depth = 0 /\ depth' > 0 => stack'[1].kind # "main",
           depth > 0 => stack'[1].kind = stack[1].kind /\ stack'[1].irq = stack[1].irq,
           depth > 0 /\ stack[1].kind = "main" => stack'[1].pc \in {stack[1].pc, "spin"},
           depth > 0 => (stack[1].pc = "early" <=> stack'[1].pc = "early")
    PROVE  Inv2'
<1>1. Enabled' => Enabled
    BY DEF Enabled
<1>2. Base' = Base /\ UNCHANGED <<masked, temp, Handled>>
    BY DEF Base
<1>3. depth' > 0 /\ stack'[1].kind = "main" /\ stack'[1].pc = "write" =>
          /\ depth > 0 /\ stack[1].kind = "main" /\ stack[1].pc = "write"
          /\ stack'[1].irq = stack[1].irq
    OBVIOUS
<1>4. (depth' = 0 \/ stack'[1].pc # "early") => (depth = 0 \/ stack[1].pc # "early")
    OBVIOUS
<1>5. depth' > 0 /\ stack'[1].kind = "main" /\ stack'[1].pc = "write" =>
          Register(stack[1].irq)' = Register(stack[1].irq)
    BY <1>3 DEF Register
<1> QED BY <1>1, <1>2, <1>3, <1>4, <1>5 DEF Inv2, MaskOK

LEMMA InterruptInv2 ==
    ASSUME InterruptsAssumption, Inv1, Inv2, NEW l \in Devices, Interrupt(l)
    PROVE  Inv2'
<1>1. CASE UNCHANGED <<depth, stack, masked, temp>>
    BY <1>1 DEF Inv2, NestOK, MaskOK, Enabled, Handled
<1>2. CASE ~At("frame") /\ ~Overwrites /\ state = "running" /\ sti
  <2> DEFINE g == [LineFrame(l) EXCEPT !.ret  = IF depth = 0 THEN "restart" ELSE "reenter",
                                       !.home = IF depth = 0 THEN sp0 ELSE OnStack]
  <2>1. /\ Save(LineFrame(l), stack) /\ masked' = masked \cup {l} /\ temp' = temp
        /\ UNCHANGED <<p_proc_ready, sp0>> /\ l \notin masked
    BY <1>2 DEF Interrupt, Masked, Deliverable, LineFrame
  <2>2. /\ depth' = depth + 1 /\ depth \in Nat /\ stack'[depth'] = g
        /\ \A i \in 1 .. depth : stack'[i] = stack[i] /\ stack[i].pc \notin {"early", "frame"}
    BY <1>2, <2>1, InterruptSaves
  <2>3. g.kind = "irq" /\ g.irq = l /\ g.pc = "body"
    BY LineFrameOK DEF Frames
  <2> HIDE DEF g
  <2>4. \A i \in 1 .. depth : stack[i].kind = "irq" => stack[i].irq \in Handled
    BY <2>2 DEF Handled
  <2>5. \A i \in 1 .. depth : stack[i].kind = "irq" => stack[i].irq # l
    BY <2>1, <2>4 DEF Inv2, MaskOK
  <2>6. NestOK' /\ Handled' = Handled \cup {l}
    BY <2>2, <2>3, <2>5, SaveNest DEF Inv2
  <2>7. Base' = Base
    BY DEF Base
  <2>8. CASE depth = 0
    <3>1. masked \subseteq Base \cup Handled
        BY <2>8 DEF Inv2, MaskOK, Enabled
    <3>2. stack'[1].kind = "irq"
        BY <2>2, <2>3, <2>8
    <3>3. Base \cup Handled \subseteq masked
        BY DEF Inv2, MaskOK
    <3> QED BY <2>1, <2>6, <2>7, <3>1, <3>2, <3>3 DEF Inv2, MaskOK
  <2>9. CASE depth > 0
    <3>1. stack'[1] = stack[1] /\ depth' > 0 /\ (Enabled' => Enabled)
        BY <2>2, <2>9 DEF Enabled
    <3>2. MaskOK
        BY DEF Inv2
    <3>3. Base \cup Handled' \subseteq masked'
        BY <2>1, <2>6, <3>2 DEF MaskOK
    <3>4. Register(stack[1].irq)' = Register(stack[1].irq)
        BY <3>1 DEF Register
    <3> QED BY <2>1, <2>6, <2>7, <2>9, <3>1, <3>2, <3>3, <3>4 DEF Inv2, MaskOK
  <2> QED BY <2>2, <2>8, <2>9
<1> QED BY <1>1, <1>2 DEF Interrupt, Wild

\* The newest activation, which is not kernel_main, goes on and masks nothing.
LEMMA GotoInv2 ==
    ASSUME InterruptsAssumption, Inv1, Inv2, depth > 0, NEW f \in Frames, Goto(f),
           UNCHANGED <<depth, masked, temp>>,
           f.kind = Top.kind, f.sys = Top.sys, f.irq = Top.irq, Top.kind # "main",
           Top.kind = "irq" => f.pc # "frame" /\ Top.pc # "frame"
    PROVE  Inv2'
<1>1. depth \in Nat \ {0} /\ stack \in [1 .. depth -> Frames]
      /\ FrameOK(stack[1], 1, depth, p_proc_ready)
    BY DEF Inv1, TypeOK, FramesOK
<1>2. NestOK' /\ Handled' = Handled
    BY GotoNest DEF Inv2
<1>3. stack'[1] = IF depth = 1 THEN f ELSE stack[1]
    BY <1>1 DEF Goto
<1>4. depth = 1 => Top = stack[1]
    BY DEF Top
<1>5. /\ stack'[1].kind = stack[1].kind /\ stack'[1].irq = stack[1].irq
      /\ (stack[1].kind = "main" => stack'[1].pc = stack[1].pc)
      /\ (depth = 1 => stack[1].kind # "main")
    BY <1>3, <1>4
<1>6. CASE depth # 1
    BY <1>1, <1>2, <1>3, <1>6, SameMask DEF Inv2
<1>7. CASE depth = 1
  <2>1. depth = 1 /\ depth' = 1 /\ stack[1].kind # "main" /\ stack'[1].kind # "main"
        /\ UNCHANGED <<masked, temp, Handled>>
    BY <1>2, <1>5, <1>7
  <2>2. Base' = Base /\ Enabled /\ Enabled'
    BY <2>1 DEF Base, Enabled
  <2> QED BY <1>2, <2>1, <2>2 DEF Inv2, MaskOK
<1> QED BY <1>6, <1>7

LEMMA HandlerInv2 ==
    ASSUME InterruptsAssumption, Inv1, Inv2, Handler PROVE Inv2'
<1> DEFINE f == [Top EXCEPT !.pc = "exit"]
<1>1. depth > 0 /\ Top \in Frames /\ Top.kind = "irq" /\ Top.pc = "body" /\ Goto(f)
      /\ UNCHANGED <<depth, masked, temp>>
    BY TopOK DEF Handler, At
<1>2. f \in Frames /\ f.pc = "exit" /\ f.kind = Top.kind /\ f.irq = Top.irq /\ f.sys = Top.sys
    BY <1>1 DEF Frames
<1> HIDE DEF f
<1> QED BY <1>1, <1>2, GotoInv2

LEMMA PushArgsInv2 ==
    ASSUME InterruptsAssumption, Inv1, Inv2, PushArgs PROVE Inv2'
<1> DEFINE f == [Top EXCEPT !.arg = p_proc_ready, !.pc = "body"]
<1>1. depth > 0 /\ Top \in Frames /\ Top.pc = "args" /\ Goto(f) /\ Top.kind = "call"
      /\ UNCHANGED <<depth, masked, temp>>
    BY TopOK DEF PushArgs, At, FrameOK, Frames
<1>2. f \in Frames /\ f.pc = "body" /\ f.kind = Top.kind /\ f.irq = Top.irq /\ f.sys = Top.sys
    BY <1>1 DEF Frames, Inv1, TypeOK
<1> HIDE DEF f
<1> QED BY <1>1, <1>2, GotoInv2

LEMMA BodyInv2 ==
    ASSUME InterruptsAssumption, Inv1, Inv2, Body PROVE Inv2'
<1>1. CASE UNCHANGED stack
    BY <1>1 DEF Body, Inv2, NestOK, MaskOK, Enabled, Handled, Base, Register
<1>2. CASE Goto([Top EXCEPT !.pc = "exit"])
  <2> DEFINE f == [Top EXCEPT !.pc = "exit"]
  <2>1. depth > 0 /\ Top \in Frames /\ Top.kind = "call" /\ Goto(f)
        /\ UNCHANGED <<depth, masked, temp>>
    BY <1>2, TopOK DEF Body, At
  <2>2. f \in Frames /\ f.kind = Top.kind /\ f.irq = Top.irq /\ f.sys = Top.sys
    BY <2>1 DEF Frames
  <2> HIDE DEF f
  <2> QED BY <2>1, <2>2, GotoInv2
<1> QED BY <1>1, <1>2 DEF Body

LEMMA CallExitInv2 ==
    ASSUME InterruptsAssumption, Inv1, Inv2, CallExit PROVE Inv2'
<1> DEFINE f == [Top EXCEPT !.pc = "frame"]
<1>1. depth > 0 /\ Top \in Frames /\ Top.kind = "call" /\ Goto(f)
      /\ UNCHANGED <<depth, masked, temp>>
    BY TopOK DEF CallExit, At, Return
<1>2. f \in Frames /\ f.kind = Top.kind /\ f.irq = Top.irq /\ f.sys = Top.sys
    BY <1>1 DEF Frames
<1> HIDE DEF f
<1> QED BY <1>1, <1>2, GotoInv2

\* The handled line, and no other, is unmasked.
LEMMA HandlerExitInv2 ==
    ASSUME InterruptsAssumption, Inv1, Inv2, HandlerExit PROVE Inv2'
<1> DEFINE f == [Top EXCEPT !.pc = "frame"]
           l == Top.irq
<1>1. /\ depth \in Nat \ {0} /\ Top \in Frames /\ Top.kind = "irq" /\ Goto(f)
      /\ l \in Devices /\ depth' = depth /\ temp' = temp /\ masked' = masked \ {l}
      /\ stack \in [1 .. depth -> Frames]
    BY TopOK DEF HandlerExit, At, Return, FrameOK, Unmasked, Inv1, TypeOK
<1>2. f \in Frames /\ f.kind = Top.kind /\ f.irq = l /\ f.sys = Top.sys /\ f.pc = "frame"
    BY <1>1 DEF Frames
<1> HIDE DEF f
<1>3. NestOK' /\ Handled' = Handled \ {l}
    BY <1>1, <1>2, GotoNest DEF Inv2
<1>4. l \notin Base /\ Base' = Base
    BY <1>1 DEF Base, Devices
<1>5. stack'[1] = IF depth = 1 THEN f ELSE stack[1]
    BY <1>1 DEF Goto
<1>6. depth = 1 => stack[1] = Top
    BY DEF Top
<1>7. /\ (Enabled' => Enabled) /\ (stack'[1].pc # "early" => depth = 0 \/ stack[1].pc # "early" \/ Enabled)
      /\ stack'[1].kind = "main" /\ stack'[1].pc \in {"write", "mask"} => stack'[1] = stack[1]
    BY <1>1, <1>2, <1>5, <1>6 DEF Enabled
<1>8. Base \cup Handled' \subseteq masked'
    BY <1>1, <1>3, <1>4 DEF Inv2, MaskOK
<1>9. \A S : masked \subseteq Base \cup Handled \cup S => masked' \subseteq Base \cup Handled' \cup S
    BY <1>1, <1>3
<1>10. masked \subseteq Base \cup Handled => masked' \subseteq Base \cup Handled'
    BY <1>1, <1>3
<1>11. depth' > 0 /\ stack'[1].kind = "main" /\ stack'[1].pc = "write" =>
          Register(stack[1].irq)' = Register(stack[1].irq)
    BY <1>7 DEF Register
<1> QED BY <1>1, <1>3, <1>4, <1>7, <1>8, <1>9, <1>10, <1>11 DEF Inv2, MaskOK

LEMMA SysCallInv2 ==
    ASSUME InterruptsAssumption, Inv1, Inv2, NEW s \in SysCalls, SysCall(s) PROVE Inv2'
<1>1. depth = 0 /\ UNCHANGED <<masked, temp, p_proc_ready, sp0>> /\ Save(Call(s), stack)
      /\ TypeOK /\ ReenterIsDepth /\ Flags
    BY DEF SysCall, AtUser, Inv1
<1>2. stack \in [1 .. depth -> Frames] /\ 1 .. depth = {}
    BY <1>1 DEF TypeOK
<1> DEFINE g == [Call(s) EXCEPT !.ret  = IF depth = 0 THEN "restart" ELSE "reenter",
                                !.home = IF depth = 0 THEN sp0 ELSE OnStack]
<1>3. depth' = 1 /\ stack'[1] = g /\ depth' \in Nat
    BY <1>1 DEF Save, ReenterIsDepth, Early, TypeOK
<1>4. g.kind = "call" /\ g.pc = "args"
    BY CallFrame DEF Frames
<1> HIDE DEF g
<1>5. /\ NestOK' /\ depth \in Nat /\ depth' = depth + 1 /\ stack'[depth'] = g
      /\ Handled' = Handled \cup (IF g.kind = "irq" THEN {g.irq} ELSE {})
  <2>1. depth \in Nat /\ depth' = depth + 1 /\ stack'[depth'] = g
    BY <1>1, <1>3
  <2>2. \A i \in 1 .. depth : FALSE
    BY <1>2
  <2>3. Inv1 /\ NestOK /\ g.pc # "frame" /\ ~(depth > 0)
    BY <1>1, <1>4 DEF Inv2
  <2> HIDE <1>1, <1>2, <1>3
  <2> QED BY <1>4, <2>1, <2>2, <2>3, SaveNest
<1>6. Handled' = Handled
    BY <1>4, <1>5
<1> QED BY <1>1, <1>3, <1>4, <1>5, <1>6, SameMask DEF Inv2

LEMMA NestedInv2 ==
    ASSUME InterruptsAssumption, Inv1, Inv2, NEW s \in Printings, NEW pc, Nested(s, pc),
           depth > 0, Top.pc \in {"body", "put"}, pc \in {Top.pc, "spin"},
           Top.sys \notin Printings
    PROVE  Inv2'
<1> DEFINE old == [stack EXCEPT ![depth].pc = pc]
<1>0. CASE Wild
    BY <1>0 DEF Nested, Wild, Inv2, NestOK, MaskOK, Enabled, Handled, Base, Register
<1> SUFFICES ASSUME ~Overwrites, Save(Call(s), old), state' = state PROVE Inv2'
    BY <1>0 DEF Nested
<1>1. /\ depth \in Nat \ {0} /\ TypeOK /\ Flags /\ ReenterIsDepth /\ FramesOK
      /\ Top \in Frames /\ FrameOK(Top, depth, depth, p_proc_ready)
      /\ (depth = 1 => stack[1] = Top) /\ stack \in [1 .. depth -> Frames]
    BY TopOK DEF Inv1, TypeOK
<1>2. /\ Save(Call(s), old) /\ UNCHANGED <<p_proc_ready, sp0, masked, temp, state, done>>
      /\ Top.pc \in {"body", "put"} /\ Top.sys \notin Printings
    BY DEF Nested
<1>3. /\ old \in [1 .. depth -> Frames] /\ old[depth] = [Top EXCEPT !.pc = pc]
      /\ \A i \in 1 .. depth : i # depth => old[i] = stack[i]
    BY <1>1 DEF Frames, Top
<1>4. /\ old[depth].kind = Top.kind /\ old[depth].irq = Top.irq /\ old[depth].sys = Top.sys
      /\ old[depth].pc = pc
    BY <1>1, <1>3 DEF Frames
<1> HIDE DEF old
<1>5. \A i \in 1 .. depth : /\ old[i].kind = stack[i].kind /\ old[i].irq = stack[i].irq
                            /\ old[i].sys = stack[i].sys
                            /\ (i # depth => old[i] = stack[i])
                            /\ (old[i].pc = "frame" <=> stack[i].pc = "frame")
    BY <1>2, <1>3, <1>4 DEF Top
<1> DEFINE g == Call(s)
<1>6. \A h : Save(g, h) => depth' = depth + 1
             /\ stack' = [i \in 1 .. depth + 1 |->
                  IF i = depth + 1 THEN [g EXCEPT !.ret = "reenter", !.home = OnStack] ELSE h[i]]
  <2>1. k_reenter + 1 # 0
    BY <1>1 DEF Overwrites
  <2> QED BY <1>1, <2>1 DEF Save
<1>7. /\ depth' = depth + 1 /\ stack'[depth + 1] = [g EXCEPT !.ret = "reenter", !.home = OnStack]
      /\ \A i \in 1 .. depth : stack'[i] = old[i]
    BY <1>1, <1>2, <1>6
<1> DEFINE g2 == [g EXCEPT !.ret = "reenter", !.home = OnStack]
<1>8. g2.kind = "call" /\ g2.pc = "args"
    BY CallFrame DEF Frames
<1>9. stack'[depth'] = g2
    BY <1>7
<1> HIDE DEF g2, g
<1>11. NestOK' /\ Handled' = Handled \cup (IF g2.kind = "irq" THEN {g2.irq} ELSE {})
  <2>1. \A i \in 1 .. depth : /\ stack'[i].kind = stack[i].kind /\ stack'[i].irq = stack[i].irq
                              /\ stack'[i].sys = stack[i].sys
                              /\ (stack'[i].pc = "frame" <=> stack[i].pc = "frame")
    BY <1>5, <1>7
  <2>2. depth \in Nat /\ depth' = depth + 1
    BY <1>1, <1>7
  <2> QED BY <1>2, <1>8, <1>9, <2>1, <2>2, SaveNest DEF Inv2
<1>12. Handled' = Handled
    BY <1>8, <1>11
<1>10. /\ stack'[1].kind = stack[1].kind /\ stack'[1].irq = stack[1].irq
       /\ stack'[1].pc \in {stack[1].pc, "spin"}
       /\ (stack[1].pc = "early" <=> stack'[1].pc = "early")
  <2>1. CASE depth = 1
    BY <1>1, <1>2, <1>4, <1>7, <2>1
  <2>2. CASE depth # 1
    BY <1>1, <1>5, <1>7, <2>2
  <2> QED BY <2>1, <2>2
<1> QED BY <1>1, <1>2, <1>7, <1>10, <1>11, <1>12, SameMask DEF Inv2

LEMMA KernelAssertInv2 ==
    ASSUME InterruptsAssumption, Inv1, Inv2, KernelAssert PROVE Inv2'
<1>1. depth > 0 /\ Top.pc \in {"body", "put"} /\ Nested("assert", "spin")
    BY DEF KernelAssert, InMain, At
<1>2. Top.sys \notin Printings
    BY <1>1, TopOK DEF KernelAssert, InMain, At, FrameOK, Printings
<1> QED BY <1>1, <1>2, NestedInv2 DEF Printings

LEMMA KernelPrintInv2 ==
    ASSUME InterruptsAssumption, Inv1, Inv2, KernelPrint PROVE Inv2'
<1>1. depth > 0 /\ Top.pc = "body" /\ Top.sys = "send_rec"
      /\ (Nested("print", "body") \/ Nested("panic", "spin"))
    BY DEF KernelPrint, At
<1> QED BY <1>1, NestedInv2 DEF Printings

LEMMA IretInv2 ==
    ASSUME InterruptsAssumption, Inv1, Inv2, Iret PROVE Inv2'
<1>1. /\ depth \in Nat \ {0} /\ Top.pc = "frame" /\ (Top.ret = "restart" <=> depth = 1)
      /\ (depth = 1 => stack[1] = Top) /\ stack \in [1 .. depth -> Frames]
    BY TopOK DEF Iret, At, Inv1, TypeOK
<1>2. /\ depth' = depth - 1 /\ stack' = [i \in 1 .. depth - 1 |-> stack[i]]
      /\ UNCHANGED <<masked, temp>>
    BY <1>1 DEF Iret
<1>3. /\ \A i \in 1 .. depth - 1 : i \in 1 .. depth /\ stack'[i] = stack[i]
      /\ \A i \in 1 .. depth : i \in 1 .. depth - 1 \/ i = depth
    BY <1>1, <1>2
<1>4. NestOK'
  <2>1. \A i \in 1 .. depth - 1 : i > 1 => i - 1 \in 1 .. depth - 1
    BY <1>1
  <2> QED BY <1>2, <1>3, <2>1 DEF NestOK, Inv2
<1>5. Handled' = Handled
  <2>1. stack[depth].pc = "frame"
    BY <1>1 DEF Top
  <2> QED BY <1>2, <1>3, <2>1 DEF Handled
<1>6. CASE depth = 1
  <2>1. Enabled /\ Enabled' /\ Base' = Base /\ depth' = 0
    BY <1>1, <1>2, <1>6 DEF Enabled, Base
  <2> QED BY <1>2, <1>4, <1>5, <2>1 DEF Inv2, MaskOK
<1>7. CASE depth # 1
  <2>1. stack'[1] = stack[1] /\ depth' > 0 /\ depth' \in Nat
    BY <1>1, <1>2, <1>3, <1>7
  <2> QED BY <1>1, <1>2, <1>4, <1>5, <2>1, SameMask DEF Inv2
<1> QED BY <1>6, <1>7

LEMMA MainEarlyInv2 ==
    ASSUME InterruptsAssumption, Inv1, Inv2, MainEarly PROVE Inv2'
<1> DEFINE f == [Top EXCEPT !.pc = "put"]
<1>1. /\ depth = 1 /\ depth' = 1 /\ Top = stack[1] /\ Top \in Frames /\ Goto(f)
      /\ Top.kind = "main" /\ Top.pc = "early" /\ stack \in [1 .. 1 -> Frames]
    BY TopOK DEF MainEarly, MainGoto, InMain, At, FrameOK, Inv1, TypeOK
<1>2. f \in Frames /\ f.kind = "main" /\ f.sys = Top.sys /\ f.pc = "put"
    BY <1>1, DevicesAreLines DEF Frames
<1> HIDE DEF f
<1>3. NestOK' /\ Handled' = Handled /\ stack'[1] = f
  <2>1. NestOK' /\ Handled' = Handled
    BY <1>1, <1>2, GotoNest DEF Inv2
  <2> QED BY <1>1, <2>1 DEF Goto
<1>4. Handled = {} /\ Base' = Base
    BY <1>1 DEF Handled, Base
<1>5. masked' = masked \ EarlyLines /\ temp' = temp /\ masked \subseteq Lines
    BY DEF MainEarly, Inv1, TypeOK
<1>6. Base \subseteq masked
    BY DEF Inv2, MaskOK
<1>7. Base \subseteq masked' /\ masked' \subseteq Base \cup LateLines
    BY <1>5, <1>6 DEF Base
<1> QED BY <1>1, <1>2, <1>3, <1>4, <1>7 DEF Inv2, MaskOK, Enabled

LEMMA MainPutInv2 ==
    ASSUME InterruptsAssumption, Inv1, Inv2, MainPut PROVE Inv2'
<1> DEFINE f == [Top EXCEPT !.pc = "mask"]
<1>1. /\ depth = 1 /\ depth' = 1 /\ Top = stack[1] /\ Top \in Frames /\ Goto(f)
      /\ Top.kind = "main" /\ Top.pc = "put" /\ stack \in [1 .. 1 -> Frames]
    BY TopOK DEF MainPut, MainGoto, InMain, At, FrameOK, Inv1, TypeOK
<1>2. f \in Frames /\ f.kind = "main" /\ f.sys = Top.sys /\ f.pc = "mask"
    BY <1>1, DevicesAreLines DEF Frames
<1> HIDE DEF f
<1>3. NestOK' /\ Handled' = Handled /\ stack'[1] = f
  <2>1. NestOK' /\ Handled' = Handled
    BY <1>1, <1>2, GotoNest DEF Inv2
  <2> QED BY <1>1, <2>1 DEF Goto
<1>4. Handled = {} /\ Base' = Base
    BY <1>1 DEF Handled, Base
<1>5. masked' = masked /\ temp' = masked \ Master
    BY DEF MainPut
<1>6. Base \subseteq masked /\ masked \subseteq Base \cup LateLines
    BY <1>1, <1>4 DEF Inv2, MaskOK
<1> QED BY <1>1, <1>2, <1>3, <1>4, <1>5, <1>6 DEF Inv2, MaskOK, Enabled

LEMMA MainMaskInv2 ==
    ASSUME InterruptsAssumption, Inv1, Inv2, MainMask PROVE Inv2'
<1> DEFINE f == [Top EXCEPT !.pc = "late"]
<1>1. /\ depth = 1 /\ depth' = 1 /\ Top = stack[1] /\ Top \in Frames /\ Goto(f)
      /\ Top.kind = "main" /\ Top.pc = "mask" /\ stack \in [1 .. 1 -> Frames]
    BY TopOK DEF MainMask, MainGoto, InMain, At, FrameOK, Inv1, TypeOK
<1>2. f \in Frames /\ f.kind = "main" /\ f.sys = Top.sys /\ f.pc = "late"
    BY <1>1, DevicesAreLines DEF Frames
<1> HIDE DEF f
<1>3. NestOK' /\ Handled' = Handled /\ stack'[1] = f
  <2>1. NestOK' /\ Handled' = Handled
    BY <1>1, <1>2, GotoNest DEF Inv2
  <2> QED BY <1>1, <2>1 DEF Goto
<1>4. Handled = {} /\ Base' = Base
    BY <1>1 DEF Handled, Base
<1>5. masked' = (masked \cap Master) \cup temp \cup (LateLines \ Master)
    BY DEF MainMask
<1>6. Base \subseteq masked /\ masked \subseteq Base \cup LateLines
    BY <1>1, <1>4 DEF Inv2, MaskOK
<1>7. Base \ Master \subseteq temp /\ temp \subseteq Base \cup LateLines
    BY <1>1 DEF Inv2, MaskOK
<1>8. Base \subseteq masked' /\ masked' \subseteq Base \cup LateLines
    BY <1>5, <1>6, <1>7
<1> QED BY <1>1, <1>2, <1>3, <1>4, <1>8 DEF Inv2, MaskOK, Enabled

LEMMA MainReadInv2 ==
    ASSUME InterruptsAssumption, Inv1, Inv2, NEW l \in LateLines, MainRead(l) PROVE Inv2'
<1> DEFINE f == [Top EXCEPT !.pc = "write", !.irq = l]
<1>1. /\ depth = 1 /\ depth' = 1 /\ Top = stack[1] /\ Top \in Frames /\ Goto(f)
      /\ Top.kind = "main" /\ Top.pc = "late" /\ stack \in [1 .. 1 -> Frames]
    BY TopOK DEF MainRead, MainGoto, InMain, At, FrameOK, Inv1, TypeOK
<1>2. f \in Frames /\ f.kind = "main" /\ f.sys = Top.sys /\ f.pc = "write" /\ f.irq = l
    BY <1>1, DevicesAreLines DEF Frames
<1> HIDE DEF f
<1>3. NestOK' /\ Handled' = Handled /\ stack'[1] = f
  <2>1. NestOK' /\ Handled' = Handled
    BY <1>1, <1>2, GotoNest DEF Inv2
  <2> QED BY <1>1, <2>1 DEF Goto
<1>4. Handled = {} /\ Base' = Base
    BY <1>1 DEF Handled, Base
<1>5. masked' = masked /\ temp' = masked \cap Register(l)
    BY DEF MainRead
<1>6. Base \subseteq masked /\ masked \subseteq Base \cup LateLines
    BY <1>1, <1>4 DEF Inv2, MaskOK
<1>7. Base \cap Register(l) \subseteq temp' /\ temp' \subseteq Base \cup LateLines
    BY <1>5, <1>6
<1>8. Register(stack[1].irq)' = Register(l)
    BY <1>2, <1>3 DEF Register
<1> QED BY <1>1, <1>2, <1>3, <1>4, <1>5, <1>6, <1>7, <1>8 DEF Inv2, MaskOK, Enabled

LEMMA MainWriteInv2 ==
    ASSUME InterruptsAssumption, Inv1, Inv2, MainWrite PROVE Inv2'
<1> DEFINE f == [Top EXCEPT !.pc = "late"]
<1>1. /\ depth = 1 /\ depth' = 1 /\ Top = stack[1] /\ Top \in Frames /\ Goto(f)
      /\ Top.kind = "main" /\ Top.pc = "write" /\ stack \in [1 .. 1 -> Frames]
    BY TopOK DEF MainWrite, MainGoto, InMain, At, FrameOK, Inv1, TypeOK
<1>2. f \in Frames /\ f.kind = "main" /\ f.sys = Top.sys /\ f.pc = "late"
    BY <1>1, DevicesAreLines DEF Frames
<1> HIDE DEF f
<1>3. NestOK' /\ Handled' = Handled /\ stack'[1] = f
  <2>1. NestOK' /\ Handled' = Handled
    BY <1>1, <1>2, GotoNest DEF Inv2
  <2> QED BY <1>1, <2>1 DEF Goto
<1>4. Handled = {} /\ Base' = Base
    BY <1>1 DEF Handled, Base
<1>5. masked' = (masked \ Register(Top.irq)) \cup (temp \ {Top.irq})
    BY DEF MainWrite
<1>6. Base \subseteq masked /\ masked \subseteq Base \cup LateLines
    BY <1>1, <1>4 DEF Inv2, MaskOK
<1>7. Base \cap Register(Top.irq) \subseteq temp /\ temp \subseteq Base \cup LateLines
    BY <1>1 DEF Inv2, MaskOK
<1>8. Top.irq \notin Base
    BY <1>1, TopOK DEF FrameOK, Base
<1>9. Base \subseteq masked' /\ masked' \subseteq Base \cup LateLines
    BY <1>5, <1>6, <1>7, <1>8
<1> QED BY <1>1, <1>2, <1>3, <1>4, <1>9 DEF Inv2, MaskOK, Enabled

LEMMA MainTableInv2 ==
    ASSUME InterruptsAssumption, Inv1, Inv2, MainTable PROVE Inv2'
<1> DEFINE f == [Top EXCEPT !.pc = "restart"]
<1>1. /\ depth = 1 /\ depth' = 1 /\ Top = stack[1] /\ Top \in Frames /\ Goto(f)
      /\ Top.kind = "main" /\ Top.pc = "late" /\ stack \in [1 .. 1 -> Frames]
    BY TopOK DEF MainTable, MainGoto, InMain, At, FrameOK, Inv1, TypeOK
<1>2. f \in Frames /\ f.kind = "main" /\ f.sys = Top.sys /\ f.pc = "restart"
    BY <1>1, DevicesAreLines DEF Frames
<1> HIDE DEF f
<1>3. NestOK' /\ Handled' = Handled /\ stack'[1] = f
  <2>1. NestOK' /\ Handled' = Handled
    BY <1>1, <1>2, GotoNest DEF Inv2
  <2> QED BY <1>1, <2>1 DEF Goto
<1>4. Handled = {} /\ Base' = Base
    BY <1>1 DEF Handled, Base
<1>5. masked' = masked /\ temp' = temp /\ LateLines \cap masked = {}
    BY DEF MainTable, MainGoto
<1>6. Base \subseteq masked /\ masked \subseteq Base
    BY <1>1, <1>4, <1>5 DEF Inv2, MaskOK
<1> QED BY <1>1, <1>2, <1>3, <1>4, <1>5, <1>6 DEF Inv2, MaskOK

LEMMA MainRestartInv2 ==
    ASSUME InterruptsAssumption, Inv1, Inv2, MainRestart PROVE Inv2'
<1> DEFINE f == [Top EXCEPT !.pc = "frame"]
<1>1. /\ depth = 1 /\ depth' = 1 /\ Top = stack[1] /\ Top \in Frames /\ Goto(f)
      /\ Top.kind = "main" /\ Top.pc = "restart" /\ stack \in [1 .. 1 -> Frames]
    BY TopOK DEF MainRestart, MainGoto, InMain, At, FrameOK, Inv1, TypeOK
<1>2. f \in Frames /\ f.kind = "main" /\ f.sys = Top.sys /\ f.pc = "frame"
    BY <1>1, DevicesAreLines DEF Frames
<1> HIDE DEF f
<1>3. NestOK' /\ Handled' = Handled /\ stack'[1] = f
  <2>1. NestOK' /\ Handled' = Handled
    BY <1>1, <1>2, GotoNest DEF Inv2
  <2> QED BY <1>1, <2>1 DEF Goto
<1>4. Handled = {} /\ Base' = Base
    BY <1>1 DEF Handled, Base
<1>5. masked' = masked /\ temp' = temp
    BY DEF MainRestart, MainGoto
<1>6. Base \subseteq masked /\ masked \subseteq Base
    BY <1>1, <1>4 DEF Inv2, MaskOK, Enabled
<1> QED BY <1>1, <1>2, <1>3, <1>4, <1>5, <1>6 DEF Inv2, MaskOK

LEMMA NextInv2 == Inv1 /\ Inv2 /\ [Next]_vars => Inv2'
<1> SUFFICES ASSUME Inv1, Inv2, [Next]_vars PROVE Inv2'
    OBVIOUS
<1> USE InterruptsAssumption
<1>1. CASE UNCHANGED <<depth, stack, masked, temp>>
    BY <1>1 DEF Inv2, NestOK, MaskOK, Enabled, Handled, Base, Register
<1>2. ASSUME NEW l \in Devices, Interrupt(l) PROVE Inv2'
    BY <1>2, InterruptInv2
<1>3. ASSUME NEW s \in SysCalls, SysCall(s) PROVE Inv2'
    BY <1>3, SysCallInv2
<1>4. ASSUME NEW l \in LateLines, MainRead(l) PROVE Inv2'
    BY <1>4, MainReadInv2
<1>5. UserStep \/ Halted \/ UNCHANGED vars => UNCHANGED <<depth, stack, masked, temp>>
    BY DEF UserStep, Halted, vars
<1> QED BY <1>1, <1>2, <1>3, <1>4, <1>5, HandlerInv2, HandlerExitInv2, KernelAssertInv2,
           KernelPrintInv2, PushArgsInv2, BodyInv2, CallExitInv2, IretInv2, MainEarlyInv2,
           MainPutInv2, MainMaskInv2, MainWriteInv2, MainTableInv2, MainRestartInv2 DEF Next

-----------------------------------------------------------------------------
(* Registers                                                               *)

Inv3 == ContextKept /\ ResultIsMine

LEMMA SaveInv3 ==
    ASSUME Inv1, Inv3, NEW f, NEW old, Save(f, old), done' = done, InterruptsAssumption
    PROVE  Inv3'
<1>1. None \notin Procs
    BY InterruptsAssumption DEF None
<1>2. CASE depth = 0
  <2>1. /\ cpu.proc \in Procs /\ sp0 = cpu.proc /\ regs \in [Procs -> [n : {0, 1}, eax : Procs \cup {None}]]
        /\ cpu' = NoOne /\ regs' = [regs EXCEPT ![sp0] = [n |-> cpu.n, eax |-> cpu.eax]]
    BY <1>2 DEF Save, Inv1, Flags, TypeOK
  <2>2. ContextKept'
    BY <1>1, <2>1 DEF Inv3, ContextKept, NoOne
  <2>3. ResultIsMine'
    BY <1>1, <2>1 DEF Inv3, ResultIsMine, NoOne
  <2> QED BY <2>2, <2>3 DEF Inv3
<1>3. CASE depth # 0
  <2>1. cpu = NoOne /\ cpu' = NoOne /\ regs' = regs
    BY <1>3 DEF Save, Inv1, Flags, TypeOK
  <2> QED BY <2>1 DEF Inv3, ContextKept, ResultIsMine
<1> QED BY <1>2, <1>3

LEMMA NextInv3 == Inv1 /\ Inv3 /\ [Next]_vars => Inv3'
<1> SUFFICES ASSUME Inv1, Inv3, [Next]_vars PROVE Inv3'
    OBVIOUS
<1>0. regs \in [Procs -> [n : {0, 1}, eax : Procs \cup {None}]] /\ done \in [Procs -> {0, 1}]
      /\ cpu \in [proc : Procs \cup {None}, n : {0, 1}, eax : Procs \cup {None}]
      /\ None \notin Procs
    BY InterruptsAssumption DEF Inv1, TypeOK, None
<1>1. CASE UNCHANGED <<regs, cpu, done>>
    BY <1>1 DEF Inv3, ContextKept, ResultIsMine
<1>2. ASSUME NEW l \in Devices, Interrupt(l) PROVE Inv3'
    BY <1>1, <1>2, SaveInv3, InterruptsAssumption DEF Interrupt, Wild
<1>3. ASSUME NEW s \in SysCalls, SysCall(s) PROVE Inv3'
    BY <1>3, SaveInv3, InterruptsAssumption DEF SysCall
<1>4. CASE KernelAssert \/ KernelPrint
  <2>1. ASSUME NEW s, NEW pc, Nested(s, pc) PROVE Inv3'
    BY <1>1, <2>1, SaveInv3, InterruptsAssumption DEF Nested, Wild
  <2> QED BY <1>4, <2>1 DEF KernelAssert, KernelPrint
<1>5. CASE CallExit
  <2>1. depth > 0 /\ Top.kind = "call" /\ Top.pc = "exit" /\ UNCHANGED <<cpu, done>>
        /\ regs' = ToCaller
    BY <1>5 DEF CallExit, At
  <2>2. Top.home = OnStack \/ (Top.home \in Procs /\ Top.arg = Top.home)
    BY <2>1, TopOK DEF FrameOK, Frames
  <2>3. Top.home = OnStack => UNCHANGED <<regs, cpu, done>>
    BY <2>1 DEF ToCaller
  <2>4. CASE Top.home # OnStack
    <3>1. regs' = [regs EXCEPT ![Top.home].eax = Top.home] /\ Top.home \in Procs
        BY <2>1, <2>2, <2>4 DEF ToCaller
    <3>2. \A p \in Procs : regs'[p].n = regs[p].n /\ regs'[p].eax \in {regs[p].eax, p}
        BY <1>0, <3>1
    <3> QED BY <2>1, <3>2 DEF Inv3, ContextKept, ResultIsMine
  <2> QED BY <1>1, <2>3, <2>4
<1>6. CASE Iret
  <2>1. /\ (Top.ret = "restart" => cpu = NoOne /\ p_proc_ready \in Procs)
        /\ UNCHANGED <<regs, done>>
    BY <1>6, TopOK DEF Iret, At, Inv1, Flags
  <2>2. cpu' = IF Top.ret = "restart"
              THEN [proc |-> p_proc_ready, n |-> regs[p_proc_ready].n, eax |-> regs[p_proc_ready].eax]
              ELSE cpu
    BY <1>6 DEF Iret
  <2> QED BY <1>0, <2>1, <2>2 DEF Inv3, ContextKept, ResultIsMine, NoOne
<1>7. CASE UserStep
  <2>1. /\ cpu' = [cpu EXCEPT !.n = 1 - cpu.n] /\ regs' = regs
        /\ done' = [done EXCEPT ![cpu.proc] = 1 - done[cpu.proc]] /\ cpu.proc \in Procs
    BY <1>7 DEF UserStep, AtUser, Inv1, Flags
  <2>2. cpu'.proc = cpu.proc /\ cpu'.n = 1 - cpu.n /\ cpu'.eax = cpu.eax
    BY <1>0, <2>1
  <2> QED BY <1>0, <2>1, <2>2 DEF Inv3, ContextKept, ResultIsMine
<1>8. ASSUME NEW l \in LateLines, MainRead(l) PROVE Inv3'
    BY <1>1, <1>8 DEF MainRead
<1>9. Handler \/ HandlerExit \/ PushArgs \/ Body \/ MainEarly \/ MainPut \/ MainMask
      \/ MainWrite \/ MainTable \/ MainRestart \/ Halted \/ UNCHANGED vars => UNCHANGED <<regs, cpu, done>>
    BY DEF Handler, HandlerExit, PushArgs, Body, MainEarly, MainPut, MainMask, MainWrite,
           MainTable, MainRestart, MainGoto, Halted, vars
<1> QED BY <1>1, <1>2, <1>3, <1>4, <1>5, <1>6, <1>7, <1>8, <1>9 DEF Next

\* Where the registers are lost, kernel_main has not ended.
LEMMA NextWild == Inv1 /\ FrameSafe /\ [Next]_vars => FrameSafe'
<1> SUFFICES ASSUME Inv1, FrameSafe, [Next]_vars, state' = "wild" PROVE ~Booted'
    BY DEF FrameSafe
<1>1. CASE state = "wild"
  <2>1. UNCHANGED vars
    BY <1>1 DEF Next, Interrupt, Handler, HandlerExit, SysCall, KernelAssert, KernelPrint,
                PushArgs, Body, CallExit, Iret, MainEarly, MainPut, MainMask, MainRead, MainWrite,
                MainTable, MainRestart, MainGoto, UserStep, Halted, InMain, At, AtUser
  <2> QED BY <1>1, <2>1 DEF FrameSafe, Booted, vars
<1>2. CASE state # "wild"
  <2>1. (\E l \in Devices : Interrupt(l)) \/ (\E s, pc : Nested(s, pc))
    BY <1>2 DEF Next, Handler, HandlerExit, SysCall, KernelAssert, KernelPrint, PushArgs, Body,
                CallExit, Iret, MainEarly, MainPut, MainMask, MainRead, MainWrite, MainTable,
                MainRestart, MainGoto, UserStep, Halted, vars
  <2>2. /\ (At("frame") /\ sti) \/ Overwrites
        /\ UNCHANGED <<depth, stack>>
    BY <1>2, <2>1 DEF Interrupt, Nested, Wild
  <2>3. CASE At("frame") /\ sti
    <3>1. depth > 0 /\ Top.kind = "main" /\ depth \in Nat
        BY <2>3, TopOK DEF At, Inv1, Flags
    <3> QED BY <2>2, <3>1 DEF Booted, Top
  <2>4. CASE Overwrites
    <3>1. depth \in Nat \ {0} /\ k_reenter + 1 = 0
        BY <2>4 DEF Overwrites, Inv1, TypeOK
    <3>2. Early
        BY <3>1 DEF Inv1, ReenterIsDepth
    <3> QED BY <2>2, <3>1, <3>2 DEF Early, Booted
  <2> QED BY <2>2, <2>3, <2>4
<1> QED BY <1>1, <1>2

-----------------------------------------------------------------------------
(* The stack's bound                                                       *)

\* An activation is told by a line, or none, and by whether it prints for the
\* activation below it.
LEMMA DepthBound == Inv1 /\ NestOK => depth <= 2 * (Cardinality(Devices) + 1)
<1> SUFFICES ASSUME Inv1, NestOK PROVE depth <= 2 * (Cardinality(Devices) + 1)
    OBVIOUS
<1>1. depth \in Nat /\ stack \in [1 .. depth -> Frames]
      /\ \A i \in 1 .. depth : FrameOK(stack[i], i, depth, p_proc_ready)
    BY DEF Inv1, TypeOK, FramesOK
<1> DEFINE Own(i) == IF stack[i].kind = "irq" THEN stack[i].irq ELSE None
           Prints(i) == i > 1 /\ stack[i].kind = "call"
           T == (Devices \cup {None}) \X {0, 1}
           m == [i \in 1 .. depth |-> IF Prints(i) THEN <<Own(i - 1), 1>> ELSE <<Own(i), 0>>]
<1>2. None \notin Devices
    BY DevicesAreLines DEF Lines, None
<1>3. \A i \in 1 .. depth : Own(i) \in Devices \cup {None}
    BY <1>1 DEF FrameOK
<1>4. \A i \in 1 .. depth : i > 1 => i - 1 \in 1 .. depth
    BY <1>1
<1>5. m \in [1 .. depth -> T]
    BY <1>3, <1>4
<1>6. \A i \in 1 .. depth : ~Prints(i) /\ Own(i) = None => i = 1
    BY <1>1, <1>2 DEF FrameOK, Frames
<1>7. \A i, j \in 1 .. depth : ~Prints(i) /\ ~Prints(j) /\ Own(i) = Own(j) => i = j
    BY <1>1, <1>2, <1>6 DEF NestOK, FrameOK
<1>8. \A i \in 1 .. depth : Prints(i) => ~Prints(i - 1)
  <2> SUFFICES ASSUME NEW i \in 1 .. depth, Prints(i), Prints(i - 1) PROVE FALSE
    OBVIOUS
  <2>1. i - 1 \in 1 .. depth /\ stack[i - 1].sys \notin Printings
    BY <1>4 DEF NestOK
  <2>2. stack[i - 1].sys \in Printings
    BY <1>1, <2>1 DEF FrameOK
  <2> QED BY <2>1, <2>2
<1>9. ASSUME NEW i \in 1 .. depth, NEW j \in 1 .. depth, m[i] = m[j] PROVE i = j
  <2>1. Prints(i) <=> Prints(j)
    BY <1>9
  <2>2. CASE ~Prints(i)
    <3>1. Own(i) = Own(j)
        BY <1>9, <2>1, <2>2
    <3> QED BY <1>7, <2>1, <2>2, <3>1
  <2>3. CASE Prints(i)
    <3>1. Own(i - 1) = Own(j - 1)
        BY <1>9, <2>1, <2>3
    <3>2. i - 1 \in 1 .. depth /\ j - 1 \in 1 .. depth /\ ~Prints(i - 1) /\ ~Prints(j - 1)
        BY <1>4, <1>8, <2>1, <2>3
    <3>3. i - 1 = j - 1
        BY <1>7, <3>1, <3>2
    <3> QED BY <3>3
  <2> QED BY <2>2, <2>3
<1> HIDE DEF m, T
<1>10. m \in Injection(1 .. depth, T)
    BY <1>5, <1>9 DEF Injection, IsInjective
<1>11. IsFiniteSet(Devices) /\ Cardinality(Devices) \in Nat
  <2>0. 0 \in Int /\ 15 \in Int
    OBVIOUS
  <2>1. IsFiniteSet(Lines)
    BY <2>0, FS_Interval, Zenon DEF Lines
  <2>2. IsFiniteSet(Devices)
    BY <2>1, DevicesAreLines, FS_Subset
  <2> QED BY <2>2, FS_CardinalityType
<1>12. /\ IsFiniteSet(Devices \cup {None})
       /\ Cardinality(Devices \cup {None}) = Cardinality(Devices) + 1
    BY <1>2, <1>11, FS_AddElement
<1>13. IsFiniteSet({0, 1}) /\ Cardinality({0, 1}) = 2
  <2>1. {0, 1} = 0 .. 1
    OBVIOUS
  <2>2. 0 \in Int /\ 1 \in Int
    OBVIOUS
  <2>3. IsFiniteSet(0 .. 1) /\ Cardinality(0 .. 1) = IF 0 > 1 THEN 0 ELSE 1 - 0 + 1
    BY <2>2, FS_Interval, Zenon
  <2> QED BY <2>1, <2>3
<1>14. IsFiniteSet(T) /\ Cardinality(T) = (Cardinality(Devices) + 1) * 2
    BY <1>12, <1>13, FS_Product DEF T
<1>15. Cardinality(1 .. depth) <= Cardinality(T)
    BY <1>10, <1>14, FS_Injection
<1>16. Cardinality(1 .. depth) = depth
    BY <1>1, FS_Interval
<1> QED BY <1>11, <1>14, <1>15, <1>16

-----------------------------------------------------------------------------
(* Theorems                                                                *)

Inv == Inv1 /\ Inv2 /\ Inv3 /\ FrameSafe

\* The inductive invariant, for any processes, lines and system calls.
THEOREM Invariance == Spec => []Inv
<1>1. Init => Inv
  <2> SUFFICES ASSUME Init PROVE Inv
    OBVIOUS
  <2>1. Inv3
    BY DEF Init, Inv3, ContextKept, ResultIsMine, NoOne
  <2>2. FrameSafe
    BY DEF Init, FrameSafe
  <2> QED BY <2>1, <2>2, InitInv1, InitInv2 DEF Inv
<1>2. Inv /\ [Next]_vars => Inv'
    BY NextInv1, NextInv2, NextInv3, NextWild DEF Inv
<1> QED BY <1>1, <1>2, PTL DEF Spec

\* The types of the kernel's entry and exit (process.asm, 8259A.asm).
THEOREM TypeCorrect == Spec => []TypeOK
<1>1. Inv => TypeOK
    BY DEF Inv, Inv1
<1> QED BY <1>1, Invariance, PTL

\* k_reenter is the number of activations less one, once kernel_main has set it
\* (process.asm 37, 82, main.c 28).
THEOREM ReenterCounts == Spec => []ReenterIsDepth
<1>1. Inv => ReenterIsDepth
    BY DEF Inv, Inv1
<1> QED BY <1>1, Invariance, PTL

\* The kernel's stack holds a bounded number of activations (8259A.asm 51-53).
THEOREM StackBounded == Spec => []NestingBounded
<1>1. Inv => NestingBounded
    BY DepthBound DEF Inv, Inv2, NestOK, NestingBounded
<1> QED BY <1>1, Invariance, PTL

\* No line stays masked, though kernel_main's enable_irq is interrupted by the
\* handlers that change the same registers (8259A.c 63-65).
THEOREM LinesKept == Spec => []NoLineLost
<1>1. Inv => NoLineLost
  <2> SUFFICES ASSUME Inv, Booted PROVE masked = Base \cup Handled
    BY DEF NoLineLost, Base
  <2>1. Enabled
    BY DEF Enabled, Booted, Inv, Inv1, TypeOK
  <2> QED BY <2>1 DEF Inv, Inv2, MaskOK
<1> QED BY <1>1, Invariance, PTL

\* Processes keep their registers (process.asm 17-47, 74-89).
THEOREM ContextsKept == Spec => []ContextKept
<1>1. Inv => ContextKept
    BY DEF Inv, Inv3
<1> QED BY <1>1, Invariance, PTL

\* A result goes to the caller (process.asm 64-65).
THEOREM ResultsMine == Spec => []ResultIsMine
<1>1. Inv => ResultIsMine
    BY DEF Inv, Inv3
<1> QED BY <1>1, Invariance, PTL

\* The kernel serves the caller (process.asm 54-60, process.c 52-58).
THEOREM CallersServed == Spec => []CallerServed
<1>1. Inv => CallerServed
  <2> SUFFICES ASSUME Inv, At("body"), Top.kind = "call" PROVE CallerServed
    BY DEF CallerServed
  <2>1. depth > 0 /\ Inv1 /\ Top.pc = "body"
    BY DEF At, Inv
  <2>2. depth = 1 => ~Early
    BY <2>1, TopOK DEF Early
  <2> QED BY <2>1, <2>2, TopOK, ReenterZero, InterruptsAssumption DEF CallerServed, FrameOK, Inv1
<1> QED BY <1>1, Invariance, PTL

\* Whoever interrupted the kernel leaves p_proc_ready alone (clock.c 17-19).
THEOREM SwitchesAtBottom == Spec => SwitchAtBottom
<1>1. Inv /\ [Next]_vars => [p_proc_ready' # p_proc_ready => depth = 1]_vars
  <2> SUFFICES ASSUME Inv, [Next]_vars, p_proc_ready' # p_proc_ready PROVE depth = 1
    OBVIOUS
  <2>1. Handler \/ Body \/ MainTable
    BY DEF Next, Interrupt, HandlerExit, SysCall, KernelAssert, KernelPrint, Nested, PushArgs,
           CallExit, Iret, MainEarly, MainPut, MainMask, MainRead, MainWrite, MainRestart,
           MainGoto, UserStep, Halted, vars
  <2>2. Inv1 /\ depth > 0
    BY <2>1 DEF Inv, Handler, Body, MainTable, MainGoto, InMain, At
  <2>3. Handler => depth = 1
    BY <2>2, ReenterZero, InterruptsAssumption DEF Handler, MaySwitch, Inv1
  <2>4. Body \/ MainTable => depth = 1
    BY <2>2, TopOK DEF Body, MainTable, MainGoto, InMain, FrameOK, Printings
  <2> QED BY <2>1, <2>3, <2>4
<1> QED BY <1>1, Invariance, PTL DEF Spec, SwitchAtBottom

\* No frame is overwritten once the first process has been started
\* (process.asm 67, 8259A.asm 66, main.c 82).
THEOREM FramesSafe == Spec => []FrameSafe
<1>1. Inv => FrameSafe
    BY DEF Inv
<1> QED BY <1>1, Invariance, PTL
=============================================================================
