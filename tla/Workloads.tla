------------------------------ MODULE Workloads ------------------------------
(***************************************************************************)
(* The roofline benchmark's workloads (bench/roofline/src/workloads.rs)    *)
(* and the driver that times them (bin/roofline-wasi.rs), over any         *)
(* allocator.  One action is one call of the allocator.                    *)
(*                                                                         *)
(* A block is its name, size and alignment; names are interchangeable, so  *)
(* a new block gets the lowest free one.  Random draws and times are any.  *)
(* Any allocation may fail, which aborts the program.                      *)
(***************************************************************************)
EXTENDS Integers, Sequences, FiniteSets

CONSTANTS
    Onlys,                  \* the selections (--only) checked
    Reps,                   \* --reps
    MinWarm, MaxWarm,       \* MIN_WARM, MAX_WARM
    Iters, Actions,         \* n of a workload; of the random_actions pair
    Batch,                  \* BATCH
    ChurnLive, ChurnSizes,  \* CHURN_LIVE and the sizes churn_size draws
    RaFloor, RaCap,         \* RA_FLOOR, RA_CAP
    RaSizes, RaAligns,      \* what ra_size and ra_align_shift draw
    Target,                 \* VEC_TARGET
    LargeSizes,             \* LARGE_SIZES
    MaxGrows                \* memory.grow calls the engine grants

\* The table of the driver, in its order.
WORKLOADS == <<
    "alloc_free_32", "alloc_free_32_align16", "batch_lifo_32", "batch_fifo_32",
    "churn", "random_actions", "random_actions_norealloc", "vec_push_growth",
    "realloc_doubling", "large_alloc_free", "memory_grow_only", "memory_grow_touch">>
Names == {WORKLOADS[k] : k \in DOMAIN WORKLOADS}

ASSUME WorkloadsAssumption ==
    /\ Onlys \subseteq SUBSET Names
    /\ {Reps, Iters, Actions, Batch, ChurnLive, RaFloor, Target, MinWarm} \subseteq Nat \ {0}
    /\ MinWarm <= MaxWarm /\ RaFloor < RaCap
    /\ LargeSizes # <<>>

VARIABLES
    only, job, nrows,       \* the selection, the index in WORKLOADS, rows filled
    phase,                  \* where the driver is
    warming, calls,         \* in the warm-up; calls made of this part
    step, sub,              \* loop counters of a workload
    p,                      \* its local pointer, with the layout it keeps
    batch, churn,           \* BATCH_SLOTS; CHURN_PTRS with CHURN_SIZES
    ra, raLen,              \* RA_PTRS with sizes and shifts, up to len; RA_LEN
    live,                   \* the allocator's view: blocks in use
    grows,                  \* stretches of memory grown by workloads
    marked, startup         \* history: a reset happened; live at the first

loop   == <<step, sub, p>>
slots  == <<batch, churn, ra, raLen>>
driver == <<only, job, nrows, warming, calls>>
ghost  == <<marked, startup>>
vars   == <<driver, phase, loop, slots, live, grows, ghost>>

None == [id |-> 0, size |-> 0, align |-> 0]
NoHole == -1

Workload == WORKLOADS[job]
HasSetup == Workload = "churn"
HasTeardown == Workload \in {"churn", "random_actions", "random_actions_norealloc"}
Random == Workload \in {"random_actions", "random_actions_norealloc"}
Batches == Workload \in {"batch_lifo_32", "batch_fifo_32"}
Doubles == Workload \in {"vec_push_growth", "realloc_doubling"}
Pairs == Workload \in {"alloc_free_32", "alloc_free_32_align16", "large_alloc_free"}
GrowsMemory == Workload \in {"memory_grow_only", "memory_grow_touch"}

\* Rng::below.
Below(n) == 0 .. (n - 1)

Init ==
    /\ only \in Onlys /\ job = 1 /\ nrows = 0 /\ phase = "runtime"
    /\ warming = TRUE /\ calls = 0
    /\ step = 0 /\ sub = 0 /\ p = None
    /\ batch = [k \in Below(Batch) |-> None]
    /\ churn = [k \in Below(ChurnLive) |-> None]
    /\ ra = <<>> /\ raLen = 0
    /\ live = {} /\ grows = 0 /\ marked = FALSE /\ startup = {}

-----------------------------------------------------------------------------
(* The allocator, as its callers see it                                    *)

Name == CHOOSE n \in 1 .. (Cardinality(live) + 1) : \A b \in live : b.id # n
New(size, align) == [id |-> Name, size |-> size, align |-> align]

\* alloc granted the block b, dealloc of b with the layout b carries.
Take(b) == live' = live \cup {b}
Give(b) == live' = live \ {b}

-----------------------------------------------------------------------------
(* The workloads                                                           *)

InRun == phase = "run"
Count == IF Random THEN Actions ELSE Iters

\* Fault: the run leaves RA_LEN alone.
Recorded_Not == raLen

\* What random_actions leaves in RA_LEN for its teardown.
Recorded == Len(ra)

Return ==
    /\ InRun /\ step = Count
    /\ phase' = IF HasTeardown THEN "teardown" ELSE "called"
    /\ raLen' = IF Random THEN Recorded ELSE raLen
    /\ step' = 0 /\ sub' = 0
    /\ UNCHANGED <<driver, p, batch, churn, ra, live, grows, ghost>>

\* The layout of iteration k of alloc_free_fixed and large_alloc_free.
PairLayout(k) ==
    IF Workload = "large_alloc_free" THEN <<LargeSizes[(k % Len(LargeSizes)) + 1], 2>>
    ELSE <<2, IF Workload = "alloc_free_32" THEN 1 ELSE 2>>

PairAlloc ==
    /\ InRun /\ Pairs /\ step < Count /\ p = None
    /\ LET l == PairLayout(step) IN Take(New(l[1], l[2])) /\ p' = New(l[1], l[2])
    /\ UNCHANGED <<driver, phase, step, sub, slots, grows, ghost>>

PairFree ==
    /\ InRun /\ Pairs /\ p # None
    /\ Give(p) /\ p' = None /\ step' = step + 1
    /\ UNCHANGED <<driver, phase, sub, slots, grows, ghost>>

\* batch_alloc_free: sub counts the slots filled, then the slots freed.
BatchAlloc ==
    /\ InRun /\ Batches /\ step < Count /\ sub < Batch
    /\ Take(New(2, 1)) /\ batch' = [batch EXCEPT ![sub] = New(2, 1)]
    /\ sub' = sub + 1
    /\ UNCHANGED <<driver, phase, step, p, churn, ra, raLen, grows, ghost>>

\* The slot the k-th free of a round takes.
FreedSlot(k) == IF Workload = "batch_lifo_32" THEN Batch - 1 - k ELSE k

BatchFree ==
    /\ InRun /\ Batches /\ sub >= Batch
    /\ Give(batch[FreedSlot(sub - Batch)])
    /\ IF sub = 2 * Batch - 1 THEN sub' = 0 /\ step' = step + 1
       ELSE sub' = sub + 1 /\ UNCHANGED step
    /\ UNCHANGED <<driver, phase, p, slots, grows, ghost>>

\* churn_init, one slot at a time.
ChurnInit(size) ==
    /\ phase = "setup" /\ step < ChurnLive
    /\ Take(New(size, 1)) /\ churn' = [churn EXCEPT ![step] = New(size, 1)]
    /\ step' = step + 1
    /\ UNCHANGED <<driver, phase, sub, p, batch, ra, raLen, grows, ghost>>

SetupDone ==
    /\ phase = "setup" /\ step = ChurnLive
    /\ phase' = "run" /\ step' = 0 /\ sub' = NoHole
    /\ UNCHANGED <<driver, p, slots, live, grows, ghost>>

\* churn frees one slot, then fills it again; sub is the slot in between.
ChurnFree(k) ==
    /\ InRun /\ Workload = "churn" /\ step < Count /\ sub = NoHole
    /\ Give(churn[k]) /\ sub' = k
    /\ UNCHANGED <<driver, phase, step, p, slots, grows, ghost>>

ChurnAlloc(size) ==
    /\ InRun /\ Workload = "churn" /\ sub # NoHole
    /\ Take(New(size, 1))
    /\ churn' = [churn EXCEPT ![sub] = New(size, 1)]
    /\ sub' = NoHole /\ step' = step + 1
    /\ UNCHANGED <<driver, phase, p, batch, ra, raLen, grows, ghost>>

\* random_actions: which action a step may be.
MayAlloc == Len(ra) < RaCap
MayFree  == Len(ra) >= RaFloor
MayRealloc == MayAlloc /\ MayFree /\ Workload = "random_actions"

RaStep == InRun /\ Random /\ step < Count /\ step' = step + 1

RaAlloc(size, align) ==
    /\ RaStep /\ MayAlloc
    /\ Take(New(size, align)) /\ ra' = Append(ra, New(size, align))
    /\ UNCHANGED <<driver, phase, sub, p, batch, churn, raLen, grows, ghost>>

\* Fault: the last entry's pointer moves into the slot without its layout.
SwapRemoved_PointerOnly(k) ==
    LET last == ra[Len(ra)]
    IN  SubSeq([ra EXCEPT ![k] = [@ EXCEPT !.id = last.id]], 1, Len(ra) - 1)

\* The tables once the last entry has moved into slot k.
SwapRemoved(k) == SubSeq([ra EXCEPT ![k] = ra[Len(ra)]], 1, Len(ra) - 1)

RaFree(k) ==
    /\ RaStep /\ MayFree
    /\ Give(ra[k]) /\ ra' = SwapRemoved(k)
    /\ UNCHANGED <<driver, phase, sub, p, batch, churn, raLen, grows, ghost>>

\* realloc: in place or moved, by the allocator's choice.
RaRealloc(k, size, moves) ==
    /\ RaStep /\ MayRealloc
    /\ LET b == [ra[k] EXCEPT !.size = size, !.id = IF moves THEN Name ELSE @]
       IN  live' = (live \ {ra[k]}) \cup {b} /\ ra' = [ra EXCEPT ![k] = b]
    /\ UNCHANGED <<driver, phase, sub, p, batch, churn, raLen, grows, ghost>>

\* realloc_doubling, and Vec's growth by pushes: a block is doubled up to Target.
DoubleAlloc ==
    /\ InRun /\ Doubles /\ step < Count /\ p = None
    /\ Take(New(1, 1)) /\ p' = New(1, 1)
    /\ UNCHANGED <<driver, phase, step, sub, slots, grows, ghost>>

Double(moves) ==
    /\ InRun /\ Doubles /\ p # None /\ p.size < Target
    /\ LET b == [p EXCEPT !.size = 2 * @, !.id = IF moves THEN Name ELSE @]
       IN  live' = (live \ {p}) \cup {b} /\ p' = b
    /\ UNCHANGED <<driver, phase, step, sub, slots, grows, ghost>>

DoubleFree ==
    /\ InRun /\ Doubles /\ p # None /\ p.size >= Target
    /\ Give(p) /\ p' = None /\ step' = step + 1
    /\ UNCHANGED <<driver, phase, sub, slots, grows, ghost>>

\* memory_grow_only, memory_grow_touch: what is grown is never given back.
GrowMemory ==
    /\ InRun /\ GrowsMemory /\ step < Count /\ grows < MaxGrows
    /\ grows' = grows + 1 /\ step' = step + 1
    /\ UNCHANGED <<driver, phase, sub, p, slots, live, ghost>>

\* churn_fini and random_actions_fini, one slot at a time.
ChurnFini ==
    /\ phase = "teardown" /\ Workload = "churn" /\ step < ChurnLive
    /\ Give(churn[step]) /\ churn' = [churn EXCEPT ![step] = None]
    /\ step' = step + 1
    /\ UNCHANGED <<driver, phase, sub, p, batch, ra, raLen, grows, ghost>>

RaFini ==
    /\ phase = "teardown" /\ Random /\ step < raLen
    /\ Give(ra[step + 1]) /\ step' = step + 1
    /\ UNCHANGED <<driver, phase, sub, p, slots, grows, ghost>>

TornDown ==
    /\ phase = "teardown" /\ step = IF Random THEN raLen ELSE ChurnLive
    /\ phase' = "called" /\ step' = 0 /\ sub' = 0
    /\ ra' = <<>> /\ raLen' = 0
    /\ UNCHANGED <<driver, p, batch, churn, live, grows, ghost>>

\* A workload is about to ask for memory.
Asks ==
    \/ phase = "setup" /\ step < ChurnLive
    \/ /\ InRun /\ step < Count
       /\ \/ Pairs /\ p = None
          \/ Batches /\ sub < Batch
          \/ Workload = "churn" /\ sub # NoHole
          \/ Random /\ MayAlloc
          \/ Doubles /\ p.size < Target
          \/ GrowsMemory

\* It is refused: oom aborts.
Oom ==
    /\ Asks
    /\ phase' = "aborted"
    /\ UNCHANGED <<driver, loop, slots, live, grows, ghost>>

Run ==
    \/ Return \/ PairAlloc \/ PairFree \/ BatchAlloc \/ BatchFree
    \/ \E size \in ChurnSizes : ChurnInit(size) \/ ChurnAlloc(size)
    \/ SetupDone
    \/ \E k \in Below(ChurnLive) : ChurnFree(k)
    \/ \E size \in RaSizes, align \in RaAligns : RaAlloc(size, align)
    \/ \E k \in 1 .. Len(ra) : RaFree(k)
    \/ \E k \in 1 .. Len(ra), size \in RaSizes, moves \in BOOLEAN : RaRealloc(k, size, moves)
    \/ DoubleAlloc \/ (\E moves \in BOOLEAN : Double(moves)) \/ DoubleFree
    \/ GrowMemory \/ ChurnFini \/ RaFini \/ TornDown

-----------------------------------------------------------------------------
(* The driver                                                              *)

\* What the runtime keeps for the program's whole life.
Runtime ==
    /\ phase = "runtime" /\ phase' = "args"
    /\ Take(New(1, 1)) /\ sub' = 1
    /\ UNCHANGED <<driver, step, p, slots, grows, ghost>>

\* parse_args: an argument string, dropped before the first reset.
ReadArg ==
    /\ phase = "args" /\ p = None /\ sub = 1
    /\ Take(New(2, 1)) /\ p' = New(2, 1)
    /\ UNCHANGED <<driver, phase, step, sub, slots, grows, ghost>>

DropArg ==
    /\ phase = "args" /\ p # None
    /\ Give(p) /\ p' = None /\ sub' = 0 /\ phase' = "select"
    /\ UNCHANGED <<driver, step, slots, grows, ghost>>

\* main's loop over the table.
Skip ==
    /\ phase = "select" /\ job <= Len(WORKLOADS) /\ Workload \notin only
    /\ job' = job + 1
    /\ UNCHANGED <<only, nrows, warming, calls, phase, loop, slots, live, grows, ghost>>

Measure ==
    /\ phase = "select" /\ job <= Len(WORKLOADS) /\ Workload \in only
    /\ phase' = "call" /\ warming' = TRUE /\ calls' = 0
    /\ UNCHANGED <<only, job, nrows, loop, slots, live, grows, ghost>>

\* time_call: reset, then setup, then the run.
Reset ==
    /\ phase = "call"
    /\ phase' = IF HasSetup THEN "setup" ELSE "run"
    /\ startup' = IF marked THEN startup ELSE live
    /\ marked' = TRUE
    /\ UNCHANGED <<driver, loop, slots, live, grows>>

\* The warm-up is over after n calls, the last three stable or not.
Warm(n, stable) == n >= MinWarm /\ (stable \/ n >= MaxWarm)

\* measure: a warm-up call was made.
Warmed(stable) ==
    /\ phase = "called" /\ warming
    /\ phase' = "call"
    /\ warming' = ~Warm(calls + 1, stable)
    /\ calls' = IF Warm(calls + 1, stable) THEN 0
                ELSE IF calls < MaxWarm THEN calls + 1 ELSE calls
    /\ UNCHANGED <<only, job, nrows, loop, slots, live, grows, ghost>>

\* measure: a sample was taken; after the last, main fills the row.
Sampled ==
    /\ phase = "called" /\ ~warming
    /\ calls' = calls + 1
    /\ IF calls + 1 < Reps THEN phase' = "call" /\ UNCHANGED <<job, nrows>>
       ELSE phase' = "select" /\ job' = job + 1 /\ nrows' = nrows + 1
    /\ UNCHANGED <<only, warming, loop, slots, live, grows, ghost>>

\* The output: allocates and frees as it likes, no reset follows.
Report ==
    /\ phase = "select" /\ job > Len(WORKLOADS)
    /\ phase' = "done"
    /\ UNCHANGED <<driver, loop, slots, live, grows, ghost>>

Driver ==
    \/ Runtime \/ ReadArg \/ DropArg \/ Skip \/ Measure \/ Reset
    \/ (\E stable \in BOOLEAN : Warmed(stable)) \/ Sampled \/ Report

Next == Run \/ Driver \/ Oom

\* One thread, which runs to its end.
Spec == Init /\ [][Next]_vars

-----------------------------------------------------------------------------
(* Properties.                                                             *)

Slot(t, ks) == {t[k] : k \in ks} \ {None}

\* The blocks the program's tables and pointers name, with the layouts they give.
Held ==
    (IF p = None THEN {} ELSE {p})
        \cup (IF job > Len(WORKLOADS) \/ ~InRun THEN {}
              ELSE IF ~Batches THEN {}
              ELSE IF sub <= Batch THEN Slot(batch, Below(sub))
              ELSE Slot(batch, {FreedSlot(k) : k \in (sub - Batch) .. (Batch - 1)}))
        \cup Slot(churn, {k \in DOMAIN churn :
                 ~(job <= Len(WORKLOADS) /\ InRun /\ Workload = "churn" /\ k = sub)})
        \cup (IF phase = "teardown" /\ Random THEN Slot(ra, (step + 1) .. Len(ra))
              ELSE Slot(ra, DOMAIN ra))

\* At every moment the blocks in use are those the tables name, with the layout
\* they were last given, and the runtime's: every free and realloc passes a
\* block that is in use and its layout, none twice, and nothing is lost.
TablesAgree ==
    LET runtime == {b \in live : b.id = 1}
    IN  phase \notin {"runtime", "aborted"} =>
            live = runtime \cup Held /\ runtime \cap Held = {}

\* The driver's side of the agreement with the floor allocators: whenever it
\* rewinds, what was not live at the first reset is dead.
DeadAtReset ==
    phase = "call" => IF marked THEN live \subseteq startup ELSE p = None

=============================================================================
