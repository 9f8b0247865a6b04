--------------------------- MODULE PipelineProofs ---------------------------
(***************************************************************************)
(* Proofs about the pipelines of minishell and pipex: what processes that  *)
(* are joined by pipes do together, for any number of them and whatever    *)
(* they read and write, and that minishell's line comes to what it means.  *)
(* ProcessesProofs goes on with pipex.                                     *)
(***************************************************************************)
EXTENDS MCProcesses, FiniteSetTheorems, TLAPS

-----------------------------------------------------------------------------
(***************************************************************************)
(* What minishell and pipex start, one process per command.  A task is     *)
(* what a command is to do: its program, what it reads from and writes to, *)
(* all of its input, and what is there already where it writes.            *)
(***************************************************************************)
Places == {NoFile, Tty, ThePipe} \cup {[kind |-> "file", name |-> f, pos |-> k] : f \in Names, k \in Nat}
Processes == [state : {"forked", "runs", "ended", "killed"}, text : Seq(Items), copies : Nat,
              code : Int, in : Places, out : Places]
Tasks == [program : Programs, in : Places, out : Places, input : Seq(Items), base : Seq(Items)]

\* What a task is to write, and what a process has read and written of it.
Told(t) == Output(t.program, t.input)
Got(t, p) == IF p.state = "none" THEN 0 ELSE t.program.copies - p.copies
Put(t, p) == IF p.state = "none" THEN 0 ELSE Len(t.program.text) + Got(t, p) - Len(p.text)

\* A process has in hand what comes next.
Follows(t, p) ==
  p.state # "none" =>
    /\ p \in Processes
    /\ p.copies <= t.program.copies
    /\ Got(t, p) <= Len(t.input)
    /\ 0 <= Put(t, p)
    /\ \A k \in 1 .. Len(p.text) : p.text[k] = Told(t)[Put(t, p) + k]
    /\ p.out = t.out
    /\ p.in = IF t.in.kind = "file" THEN [kind |-> "file", name |-> t.in.name, pos |-> Got(t, p)]
              ELSE t.in

Smaller(m, n) == IF m < n THEN m ELSE n

LEMMA Parts ==
  ASSUME NEW input \in Seq(Items), NEW n \in Nat, n <= Len(input)
  PROVE  /\ SubSeq(input, 1, n) \in Seq(Items)
         /\ Len(SubSeq(input, 1, n)) = n
         /\ \A k \in 1 .. n : SubSeq(input, 1, n)[k] = input[k]
  OBVIOUS

LEMMA Joined ==
  ASSUME NEW u \in Seq(Items), NEW v \in Seq(Items)
  PROVE  /\ u \o v \in Seq(Items)
         /\ Len(u \o v) = Len(u) + Len(v)
         /\ \A k \in 1 .. Len(u) : (u \o v)[k] = u[k]
         /\ \A k \in 1 .. Len(v) : (u \o v)[Len(u) + k] = v[k]
  OBVIOUS

LEMMA OutputIs ==
  ASSUME NEW p \in Programs, NEW input \in Seq(Items)
  PROVE  /\ Output(p, input) \in Seq(Items)
         /\ Len(Output(p, input)) = Len(p.text) + Smaller(p.copies, Len(input))
         /\ \A k \in 1 .. Len(p.text) : Output(p, input)[k] = p.text[k]
         /\ \A k \in 1 .. Smaller(p.copies, Len(input)) : Output(p, input)[Len(p.text) + k] = input[k]
  <1> PICK m : m = Smaller(p.copies, Len(input))
    OBVIOUS
  <1>1. m \in Nat /\ m <= Len(input) /\ p.text \in Seq(Items)
    BY DEF Smaller, Programs
  <1>2. Output(p, input) = p.text \o SubSeq(input, 1, m)
    BY DEF Output, Smaller
  <1> PICK v : v = SubSeq(input, 1, m)
    OBVIOUS
  <1>3. v \in Seq(Items) /\ Len(v) = m /\ \A k \in 1 .. m : v[k] = input[k]
    BY <1>1, Parts
  <1> QED
    BY <1>1, <1>2, <1>3, Joined

LEMMA PlacesDiffer ==
  ASSUME NEW x \in Places
  PROVE  /\ x = ThePipe <=> x.kind = "pipe"
         /\ x = Tty <=> x.kind = "tty"
         /\ x = NoFile <=> x.kind = "none"
         /\ x.kind = "file" => x.name \in Names /\ x.pos \in Nat
         /\ x.kind \in {"none", "tty", "pipe", "file"}
  BY DEF Places, ThePipe, Tty, NoFile

\* A new process has all before it.
LEMMA Begun ==
  ASSUME NEW t \in Tasks, t.in.kind = "file" => t.in.pos = 0,
         NEW p, p = [state |-> "forked", text |-> t.program.text, copies |-> t.program.copies,
                     code |-> t.program.code, in |-> t.in, out |-> t.out]
  PROVE  /\ p \in Processes /\ p.state = "forked"
         /\ Follows(t, p) /\ Got(t, p) = 0 /\ Put(t, p) = 0
  <1>1. p \in Processes
    BY DEF Processes, Tasks, Programs
  <1>2. Got(t, p) = 0 /\ Put(t, p) = 0
    BY DEF Got, Put, Tasks, Programs
  <1>3. \A k \in 1 .. Len(p.text) : p.text[k] = Told(t)[k]
    BY OutputIs DEF Told, Tasks, Programs
  <1>4. t.in.kind = "file" => t.in = [kind |-> "file", name |-> t.in.name, pos |-> 0]
    BY DEF Tasks, Places, NoFile, Tty, ThePipe
  <1> QED
    BY <1>1, <1>2, <1>3, <1>4 DEF Follows, Tasks, Programs

\* Only its state is another.
LEMMA StateChanges ==
  ASSUME NEW t \in Tasks, NEW p \in Processes, Follows(t, p),
         NEW s \in {"forked", "runs", "ended", "killed"}, NEW q, q = [p EXCEPT !.state = s]
  PROVE  /\ q \in Processes /\ q.state = s /\ q.text = p.text /\ q.copies = p.copies
         /\ q.in = p.in /\ q.out = p.out /\ q.code = p.code
         /\ Follows(t, q) /\ Got(t, q) = Got(t, p) /\ Put(t, q) = Put(t, p)
  <1>1. /\ q \in Processes /\ q.state = s /\ q.text = p.text /\ q.copies = p.copies
        /\ q.in = p.in /\ q.out = p.out /\ q.code = p.code
    BY DEF Processes
  <1>2. p.state # "none" /\ q.state # "none"
    BY <1>1 DEF Processes
  <1>3. Got(t, q) = Got(t, p) /\ Put(t, q) = Put(t, p)
    BY <1>1, <1>2 DEF Got, Put
  <1> QED
    BY <1>1, <1>2, <1>3 DEF Follows

\* One item is written.
LEMMA WritesOne ==
  ASSUME NEW t \in Tasks, NEW p \in Processes, Follows(t, p), p.text # <<>>,
         NEW q, q = [p EXCEPT !.text = Tail(@)]
  PROVE  /\ q \in Processes /\ q.state = p.state /\ q.in = p.in /\ q.out = p.out
         /\ Follows(t, q) /\ Got(t, q) = Got(t, p) /\ Put(t, q) = Put(t, p) + 1
         /\ Put(t, p) < Len(Told(t)) /\ Head(p.text) = Told(t)[Put(t, p) + 1]
         /\ Head(p.text) \in Items
  <1>1. p.text \in Seq(Items) /\ Tail(p.text) \in Seq(Items) /\ Len(p.text) \in Nat \ {0}
        /\ Len(Tail(p.text)) = Len(p.text) - 1 /\ Head(p.text) = p.text[1] /\ Head(p.text) \in Items
        /\ \A k \in 1 .. Len(Tail(p.text)) : Tail(p.text)[k] = p.text[k + 1]
    BY DEF Processes
  <1>2. /\ q \in Processes /\ q.state = p.state /\ q.text = Tail(p.text) /\ q.copies = p.copies
        /\ q.in = p.in /\ q.out = p.out /\ q.code = p.code
    BY <1>1 DEF Processes
  <1>3. p.state # "none" /\ q.state # "none" /\ p.copies \in Nat /\ t.program.copies \in Nat
        /\ Len(t.program.text) \in Nat
    BY <1>2 DEF Processes, Tasks, Programs
  <1>4. Got(t, q) = Got(t, p) /\ Put(t, q) = Put(t, p) + 1 /\ Got(t, p) \in Int /\ Put(t, p) \in Int
    <2>1. Len(q.text) = Len(p.text) - 1 /\ Len(p.text) \in Nat
      BY ONLY <1>1, <1>2
    <2>2. Got(t, q) = t.program.copies - p.copies /\ Got(t, p) = t.program.copies - p.copies
      BY ONLY <1>2, <1>3 DEF Got
    <2>3. /\ Put(t, q) = Len(t.program.text) + Got(t, q) - Len(q.text)
          /\ Put(t, p) = Len(t.program.text) + Got(t, p) - Len(p.text)
      BY ONLY <1>3 DEF Put
    <2>4. Got(t, p) \in Int /\ Got(t, q) = Got(t, p)
      BY ONLY <1>3, <2>2
    <2>5. Put(t, p) \in Int
      <3> PICK a : a = Len(t.program.text)
        OBVIOUS
      <3> PICK b : b = Got(t, p)
        OBVIOUS
      <3> PICK l : l = Len(p.text)
        OBVIOUS
      <3>1. a \in Int /\ b \in Int /\ l \in Int
        BY ONLY <1>3, <2>1, <2>4, a = Len(t.program.text), b = Got(t, p), l = Len(p.text)
      <3>2. Put(t, p) = a + b - l
        BY ONLY <2>3, a = Len(t.program.text), b = Got(t, p), l = Len(p.text)
      <3> QED
        BY ONLY <3>1, <3>2
    <2>6. Put(t, q) = Put(t, p) + 1
      <3> PICK a : a = Len(t.program.text)
        OBVIOUS
      <3> PICK b : b = Got(t, p)
        OBVIOUS
      <3> PICK c : c = Len(p.text)
        OBVIOUS
      <3>1. a \in Int /\ b \in Int /\ c \in Int
        BY ONLY <1>3, <2>1, <2>4, a = Len(t.program.text), b = Got(t, p), c = Len(p.text)
      <3>2. Put(t, p) = a + b - c
        BY ONLY <2>3, a = Len(t.program.text), b = Got(t, p), c = Len(p.text)
      <3>3. Put(t, q) = a + b - (c - 1)
        BY ONLY <2>1, <2>3, <2>4, a = Len(t.program.text), b = Got(t, p), c = Len(p.text)
      <3> QED
        BY ONLY <3>1, <3>2, <3>3
    <2> QED
      BY ONLY <2>4, <2>5, <2>6
  <1>5. Head(p.text) = Told(t)[Put(t, p) + 1]
    BY <1>1, <1>3 DEF Follows
  <1>6. Put(t, p) < Len(Told(t))
    <2>1. Len(Told(t)) = Len(t.program.text) + Smaller(t.program.copies, Len(t.input))
          /\ Len(t.input) \in Nat
      BY OutputIs DEF Told, Tasks
    <2>2. Got(t, p) <= Smaller(t.program.copies, Len(t.input))
      BY <1>3, <2>1 DEF Follows, Got, Smaller
    <2>3. Smaller(t.program.copies, Len(t.input)) \in Int
      BY <1>3, <2>1 DEF Smaller
    <2>4. Put(t, p) = Len(t.program.text) + Got(t, p) - Len(p.text)
      BY ONLY <1>3 DEF Put
    <2>5. Len(p.text) \in Nat \ {0}
      BY <1>1
    <2> QED
      <3> PICK a : a = Len(t.program.text)
        OBVIOUS
      <3> PICK b : b = Got(t, p)
        OBVIOUS
      <3> PICK c : c = Len(p.text)
        OBVIOUS
      <3> PICK d : d = Smaller(t.program.copies, Len(t.input))
        OBVIOUS
      <3>1. a \in Int /\ b \in Int /\ c \in Nat \ {0} /\ d \in Int /\ b <= d
        BY ONLY <1>3, <1>4, <2>2, <2>3, <2>5, a = Len(t.program.text), b = Got(t, p), c = Len(p.text),
                d = Smaller(t.program.copies, Len(t.input))
      <3>2. Put(t, p) = a + b - c
        BY ONLY <2>4, a = Len(t.program.text), b = Got(t, p), c = Len(p.text)
      <3>3. Len(Told(t)) = a + d
        BY ONLY <2>1, a = Len(t.program.text), d = Smaller(t.program.copies, Len(t.input))
      <3> QED
        BY ONLY <3>1, <3>2, <3>3
  <1>7. \A k \in 1 .. Len(q.text) : q.text[k] = Told(t)[Put(t, q) + k]
    <2> SUFFICES ASSUME NEW k \in 1 .. Len(Tail(p.text)) PROVE Tail(p.text)[k] = Told(t)[Put(t, p) + 1 + k]
      BY <1>2, <1>4
    <2>1. k + 1 \in 1 .. Len(p.text) /\ Tail(p.text)[k] = p.text[k + 1]
      BY <1>1
    <2>2. p.text[k + 1] = Told(t)[Put(t, p) + (k + 1)]
      BY <1>3, <2>1 DEF Follows
    <2>3. Put(t, p) + (k + 1) = Put(t, p) + 1 + k
      BY <1>4, <2>1
    <2> QED
      BY <2>1, <2>2, <2>3
  <1>8. Follows(t, q)
    <2>1. 0 <= Put(t, q)
      BY ONLY <1>3, <1>4, Follows(t, p) DEF Follows
    <2>2. /\ q.in = IF t.in.kind = "file" THEN [kind |-> "file", name |-> t.in.name, pos |-> Got(t, q)]
                    ELSE t.in
          /\ q.out = t.out /\ q.copies <= t.program.copies /\ Got(t, q) <= Len(t.input)
      BY ONLY <1>2, <1>3, <1>4, Follows(t, p) DEF Follows
    <2> QED
      BY ONLY <1>2, <1>3, <1>7, <2>1, <2>2 DEF Follows
  <1> QED
    BY <1>1, <1>2, <1>4, <1>5, <1>6, <1>8

\* One item is read: it is the next of the input, and in hand to be written.
LEMMA ReadsOne ==
  ASSUME NEW t \in Tasks, NEW p \in Processes, Follows(t, p), p.text = <<>>, p.copies > 0,
         Got(t, p) < Len(t.input), NEW item, item = t.input[Got(t, p) + 1],
         NEW q \in Processes, q.state = p.state, q.text = <<item>>, q.copies = p.copies - 1,
         q.out = p.out,
         q.in = IF t.in.kind = "file" THEN [kind |-> "file", name |-> t.in.name, pos |-> Got(t, p) + 1]
                ELSE p.in
  PROVE  Follows(t, q) /\ Got(t, q) = Got(t, p) + 1 /\ Put(t, q) = Put(t, p)
  <1>1. p.state # "none" /\ q.state # "none" /\ p.copies \in Nat /\ t.program.copies \in Nat
        /\ Len(t.program.text) \in Nat /\ Len(t.input) \in Nat
    BY DEF Processes, Tasks, Programs
  <1>2. Len(p.text) = 0 /\ Len(q.text) = 1
    OBVIOUS
  <1>3. /\ Got(t, q) = Got(t, p) + 1 /\ Put(t, q) = Put(t, p) /\ Got(t, p) \in Nat
        /\ Put(t, p) = Len(t.program.text) + Got(t, p) /\ q.copies <= t.program.copies
        /\ Got(t, p) < t.program.copies
    BY <1>1, <1>2 DEF Got, Put, Follows
  <1>4. item = Told(t)[Put(t, q) + 1]
    <2>1. Got(t, p) + 1 \in 1 .. Smaller(t.program.copies, Len(t.input))
      BY <1>1, <1>3 DEF Smaller
    <2>2. Told(t)[Len(t.program.text) + (Got(t, p) + 1)] = t.input[Got(t, p) + 1]
      BY <2>1, OutputIs DEF Told, Tasks
    <2>3. Len(t.program.text) + (Got(t, p) + 1) = Put(t, q) + 1
      <3>1. PICK l \in Nat : l = Len(t.program.text)
        BY ONLY <1>1
      <3>2. PICK g \in Nat : g = Got(t, p)
        BY ONLY <1>3
      <3>3. Put(t, q) = l + g
        BY ONLY <1>3, <3>1, <3>2
      <3>4. l + (g + 1) = (l + g) + 1
        BY ONLY l \in Nat, g \in Nat
      <3> QED
        BY ONLY <3>1, <3>2, <3>3, <3>4
    <2> QED
      BY <2>2, <2>3
  <1>5. \A k \in 1 .. Len(q.text) : q.text[k] = Told(t)[Put(t, q) + k]
    BY <1>2, <1>4
  <1>6. /\ p.out = t.out
        /\ t.in.kind # "file" => p.in = t.in
    BY <1>1 DEF Follows
  <1> QED
    BY <1>1, <1>3, <1>5, <1>6 DEF Follows

\* Who has nothing in hand and reads no more has written everything.
LEMMA AllPut ==
  ASSUME NEW t \in Tasks, NEW p \in Processes, Follows(t, p), p.text = <<>>,
         p.copies = 0 \/ Got(t, p) = Len(t.input)
  PROVE  Put(t, p) = Len(Told(t))
  <1>1. p.state # "none" /\ p.copies \in Nat /\ t.program.copies \in Nat
        /\ Len(t.program.text) \in Nat /\ Len(t.input) \in Nat /\ Len(p.text) = 0
    BY DEF Processes, Tasks, Programs
  <1>2. Len(Told(t)) = Len(t.program.text) + Smaller(t.program.copies, Len(t.input))
    BY OutputIs DEF Told, Tasks
  <1>3. Put(t, p) = Len(t.program.text) + Got(t, p) /\ Got(t, p) = t.program.copies - p.copies
    BY <1>1 DEF Got, Put
  <1>4. Got(t, p) <= Len(t.input) /\ p.copies <= t.program.copies
    BY <1>1 DEF Follows
  <1>5. Got(t, p) = Smaller(t.program.copies, Len(t.input))
    BY <1>1, <1>3, <1>4 DEF Smaller
  <1> QED
    BY <1>1, <1>2, <1>3, <1>5

LEMMA SameItems ==
  ASSUME NEW u \in Seq(Items), NEW v \in Seq(Items), Len(u) = Len(v),
         \A k \in 1 .. Len(v) : u[k] = v[k]
  PROVE  u = v
  OBVIOUS

\* A part of what is told, and the next item.
LEMMA PartGrows ==
  ASSUME NEW base \in Seq(Items), NEW told \in Seq(Items), NEW n \in Nat, n < Len(told)
  PROVE  /\ base \o SubSeq(told, 1, n) \in Seq(Items)
         /\ Append(base \o SubSeq(told, 1, n), told[n + 1]) = base \o SubSeq(told, 1, n + 1)
  <1> PICK u : u = SubSeq(told, 1, n)
    OBVIOUS
  <1> PICK v : v = SubSeq(told, 1, n + 1)
    OBVIOUS
  <1> PICK item : item = told[n + 1]
    OBVIOUS
  <1>1. u \in Seq(Items) /\ Len(u) = n /\ \A k \in 1 .. n : u[k] = told[k]
    BY Parts
  <1>2. v \in Seq(Items) /\ Len(v) = n + 1 /\ \A k \in 1 .. n + 1 : v[k] = told[k]
    BY Parts
  <1>3. item \in Items /\ Append(u, item) \in Seq(Items)
    BY <1>1
  <1>4. Append(u, item) = v
    <2>1. Len(Append(u, item)) = n + 1 /\ \A k \in 1 .. n + 1 : Append(u, item)[k] = v[k]
      BY <1>1, <1>2, <1>3
    <2> QED
      BY ONLY <1>2, <1>3, <2>1, SameItems
  <1>5. base \o u \in Seq(Items) /\ Append(base \o u, item) \in Seq(Items) /\ base \o v \in Seq(Items)
    BY ONLY <1>1, <1>2, <1>3, base \in Seq(Items), Joined
  <1>6. Append(base \o u, item) = base \o v
    <2>1. Len(base \o u) = Len(base) + n /\ Len(base \o v) = Len(base) + n + 1
      <3>1. Len(base \o u) = Len(base) + Len(u) /\ Len(base \o v) = Len(base) + Len(v)
        BY ONLY <1>1, <1>2, base \in Seq(Items), Joined
      <3>2. Len(base) \in Nat /\ Len(u) = n /\ Len(v) = n + 1
        BY ONLY <1>1, <1>2, base \in Seq(Items)
      <3> QED
        BY ONLY <3>1, <3>2, n \in Nat
    <2>2. Len(Append(base \o u, item)) = Len(base \o v)
      BY ONLY <1>5, <2>1, n \in Nat, base \in Seq(Items), <1>3
    <2>3. ASSUME NEW k \in 1 .. Len(base \o v) PROVE Append(base \o u, item)[k] = (base \o v)[k]
      <3>1. CASE k <= Len(base)
        <4>1. k \in 1 .. Len(base) /\ k \in 1 .. Len(base \o u)
          BY ONLY <2>1, <3>1, k \in 1 .. Len(base \o v), n \in Nat, base \in Seq(Items)
        <4>2. (base \o u)[k] = base[k] /\ (base \o v)[k] = base[k]
          BY ONLY <1>1, <1>2, <4>1, base \in Seq(Items), Joined
        <4> QED
          BY ONLY <1>3, <1>5, <4>1, <4>2
      <3>2. CASE k > Len(base)
        <4> PICK i : i = k - Len(base)
          OBVIOUS
        <4>1. i \in 1 .. n + 1 /\ k = Len(base) + i
          BY <2>1, <3>2
        <4>2. (base \o v)[k] = told[i]
          <5>1. (base \o v)[Len(base) + i] = v[i]
            BY ONLY <1>2, <4>1, base \in Seq(Items), Joined
          <5> QED
            BY ONLY <1>2, <4>1, <5>1
        <4>3. CASE i <= n
          <5>1. (base \o u)[k] = told[i]
            BY ONLY <1>1, <4>1, <4>3, base \in Seq(Items), n \in Nat, Joined
          <5>2. k \in 1 .. Len(base \o u)
            BY <2>1, <4>1, <4>3
          <5> QED
            BY ONLY <1>3, <1>5, <4>2, <5>1, <5>2
        <4>4. CASE i = n + 1
          <5>1. k = Len(base \o u) + 1
            BY <2>1, <4>1, <4>4
          <5> QED
            BY ONLY <1>3, <1>5, <4>2, <4>4, <5>1, item = told[n + 1]
        <4> QED
          <5>1. i <= n \/ i = n + 1
            BY ONLY <4>1, n \in Nat
          <5> QED
            BY ONLY <5>1, <4>3, <4>4
      <3> QED
        BY <2>1, <3>1, <3>2
    <2> QED
      BY ONLY <1>5, <2>2, <2>3, SameItems
  <1> QED
    BY <1>4, <1>5, <1>6

LEMMA WholePart ==
  ASSUME NEW told \in Seq(Items)
  PROVE  SubSeq(told, 1, Len(told)) = told /\ SubSeq(told, 1, 0) = <<>>
  OBVIOUS

-----------------------------------------------------------------------------
(***************************************************************************)
(* All of them at work.                                                    *)
(***************************************************************************)
StageTypes ==
  /\ proc \in [Stages -> Processes \cup {Nothing}]
  /\ \A i \in Stages : proc[i].state # "none" /\ proc[i].in = ThePipe => i - 1 \in DOMAIN pipe
  /\ pipe \in [DOMAIN pipe -> Seq(Items)] /\ Pipes \subseteq DOMAIN pipe
  /\ {Parent} \cup Stages \subseteq DOMAIN ends
  /\ files \in [Names -> Seq(Items)] /\ shown \in Seq(Items)

\* What one command passes to the next is what the next reads; nobody writes to a
\* file that another one uses.
WellFormed(plan) ==
  /\ plan \in Seq(Tasks) /\ Len(plan) \in 1 .. MaxStages
  /\ \A i \in 1 .. Len(plan) :
       /\ plan[i].in # NoFile /\ plan[i].out # NoFile
       /\ plan[i].in.kind = "file" => plan[i].in.pos = 0
       /\ plan[i].in = Tty => plan[i].input = <<>>
       /\ plan[i].in = ThePipe /\ i > 1 =>
            plan[i].input = IF plan[i - 1].out = ThePipe THEN Told(plan[i - 1]) ELSE <<>>
       /\ plan[i].out = ThePipe => i < Len(plan)
       /\ plan[i].out = Tty => i = Len(plan)
  /\ \A i, j \in 1 .. Len(plan) : plan[i].out.kind = "file" =>
       /\ plan[j].in.kind = "file" => plan[j].in.name # plan[i].out.name
       /\ j # i /\ plan[j].out.kind = "file" => plan[j].out.name # plan[i].out.name

Sent(plan, j) ==
  IF j = 0 THEN Len(plan[1].input)
  ELSE IF plan[j].out = ThePipe THEN Put(plan[j], proc[j]) ELSE 0

PipeKeeps(plan, i) ==
  plan[i].in = ThePipe =>
    /\ i - 1 \in DOMAIN pipe
    /\ Len(pipe[i - 1]) = Sent(plan, i - 1) - Got(plan[i], proc[i])
    /\ \A k \in 1 .. Len(pipe[i - 1]) : pipe[i - 1][k] = plan[i].input[Got(plan[i], proc[i]) + k]

SourceStays(plan, i) == plan[i].in.kind = "file" => files[plan[i].in.name] = plan[i].input

Written1(plan, i) == plan[i].base \o SubSeq(Told(plan[i]), 1, Put(plan[i], proc[i]))
SinkGrows(plan, i) ==
  /\ proc[i].state # "none" /\ plan[i].out.kind = "file" => files[plan[i].out.name] = Written1(plan, i)
  /\ plan[i].out = Tty => shown = Written1(plan, i)

\* One that was killed leaves nobody who would still read from it.
EndsWell(plan, i) ==
  /\ proc[i].state = "ended" => Put(plan[i], proc[i]) = Len(Told(plan[i]))
  /\ proc[i].state = "killed" => plan[i].out = ThePipe /\ (plan[i + 1].in = ThePipe => Over(i + 1))

\* The ends of its pipes are open until it is over, in the parent before it starts.
EndsOf(plan, i) == {e \in {<< i - 1, "r" >>, << i, "w" >>} :
                      \/ e[2] = "r" /\ plan[i].in = ThePipe
                      \/ e[2] = "w" /\ plan[i].out = ThePipe}
Holder(i) == IF proc[i].state = "none" THEN Parent ELSE i
HoldsEnds(plan, i) == ~Over(i) => EndsOf(plan, i) \subseteq ends[Holder(i)]

AtWork(plan, i) ==
  /\ Follows(plan[i], proc[i]) /\ PipeKeeps(plan, i)
  /\ SourceStays(plan, i) /\ SinkGrows(plan, i)
  /\ EndsWell(plan, i) /\ HoldsEnds(plan, i)

Net(plan) ==
  /\ \A i \in 1 .. Len(plan) : AtWork(plan, i)
  /\ \A i \in Stages : i > Len(plan) => proc[i].state = "none"

LEMMA OneTask ==
  ASSUME MaxStages \in Nat, NEW plan, WellFormed(plan), NEW i \in 1 .. Len(plan)
  PROVE  /\ plan[i] \in Tasks /\ i \in Stages /\ i \in Nat /\ Len(plan) \in Nat
         /\ Told(plan[i]) \in Seq(Items) /\ plan[i].base \in Seq(Items) /\ plan[i].input \in Seq(Items)
         /\ plan[i].in \in Places /\ plan[i].out \in Places
  <1>1. plan[i] \in Tasks /\ i \in Stages /\ i \in Nat /\ Len(plan) \in Nat
    BY DEF WellFormed, Stages
  <1> QED
    BY <1>1, OutputIs DEF Told, Tasks

LEMMA OneProcess ==
  ASSUME StageTypes, NEW i \in Stages
  PROVE  /\ proc[i].state # "none" <=> proc[i] \in Processes
         /\ proc[i].state = "none" <=> proc[i] = Nothing
         /\ Over(i) => proc[i].state # "none"
         /\ proc[i].state \in {"none", "forked", "runs", "ended", "killed"}
  BY DEF StageTypes, Processes, Nothing, Over

LEMMA Others ==
  ASSUME StageTypes, NEW i \in Stages, NEW q, proc' = [proc EXCEPT ![i] = q]
  PROVE  proc'[i] = q /\ \A k \in Stages : k # i => proc'[k] = proc[k]
  BY DEF StageTypes

\* A step of process i leaves the others what they have and hold.
LEMMA PipesKeep ==
  ASSUME MaxStages \in Nat, NEW plan, WellFormed(plan), Net(plan),
         NEW i \in Stages, NEW k \in 1 .. Len(plan), k # i,
         \A j \in Stages : j # i => proc'[j] = proc[j],
         Put(plan[i], proc'[i]) = Put(plan[i], proc[i]) \/ k # i + 1 \/ plan[i].out # ThePipe,
         pipe'[k - 1] = pipe[k - 1], DOMAIN pipe' = DOMAIN pipe
  PROVE  PipeKeeps(plan, k)'
  <1>1. /\ k \in Stages /\ proc'[k] = proc[k] /\ k \in Nat
    BY OneTask DEF Stages
  <1>2. PipeKeeps(plan, k)
    BY DEF Net, AtWork
  <1> SUFFICES ASSUME plan[k].in = ThePipe PROVE PipeKeeps(plan, k)'
    BY DEF PipeKeeps
  <1>3. Sent(plan, k - 1)' = Sent(plan, k - 1)
    <2>1. CASE k - 1 = 0
      BY <2>1 DEF Sent
    <2>2. CASE k - 1 = i
      BY <1>1, <2>2 DEF Sent
    <2>3. CASE k - 1 # 0 /\ k - 1 # i
      BY <1>1, <2>3 DEF Sent, Stages
    <2> QED
      BY <2>1, <2>2, <2>3
  <1>4. Got(plan[k], proc[k])' = Got(plan[k], proc[k])
    BY <1>1
  <1> QED
    BY <1>2, <1>3, <1>4 DEF PipeKeeps

LEMMA NeighboursKeep ==
  ASSUME MaxStages \in Nat, NEW plan, WellFormed(plan), StageTypes, Net(plan),
         NEW i \in 1 .. Len(plan), NEW k \in 1 .. Len(plan), k # i,
         \A j \in Stages : j # i => proc'[j] = proc[j],
         proc[i].state \in {"none", "forked", "runs"},
         PipeKeeps(plan, k)',
         \A f \in Names : files'[f] = files[f] \/ (plan[i].out.kind = "file" /\ plan[i].out.name = f),
         shown' = shown \/ plan[i].out = Tty,
         \A j \in DOMAIN ends : j # i /\ j # Parent => ends'[j] = ends[j],
         EndsOf(plan, k) \subseteq ends[Parent] => EndsOf(plan, k) \subseteq ends'[Parent]
  PROVE  AtWork(plan, k)'
  <1>1. /\ k \in Stages /\ i \in Stages /\ proc'[k] = proc[k] /\ Parent # k /\ Parent # i
        /\ i \in Nat /\ k \in Nat /\ Len(plan) \in Nat
        /\ plan[k].in \in Places /\ plan[k].out \in Places
    BY OneTask DEF Stages, Parent
  <1>2. AtWork(plan, k)
    BY DEF Net
  <1>3. Follows(plan[k], proc[k])'
    BY <1>1, <1>2 DEF AtWork
  <1>5. SourceStays(plan, k)'
    <2> SUFFICES ASSUME plan[k].in.kind = "file" PROVE files'[plan[k].in.name] = files[plan[k].in.name]
      BY <1>2 DEF SourceStays, AtWork
    <2>1. plan[k].in.name \in Names
      BY <1>1, PlacesDiffer
    <2> QED
      BY <2>1 DEF WellFormed
  <1>6. SinkGrows(plan, k)'
    <2>1. Written1(plan, k)' = Written1(plan, k)
      BY <1>1 DEF Written1
    <2>2. ASSUME plan[k].out.kind = "file" PROVE files'[plan[k].out.name] = files[plan[k].out.name]
      <3>1. plan[k].out.name \in Names
        BY <1>1, <2>2, PlacesDiffer
      <3> QED
        BY <2>2, <3>1 DEF WellFormed
    <2>3. plan[k].out = Tty => shown' = shown
      BY <1>1 DEF WellFormed
    <2> QED
      BY <1>1, <1>2, <2>1, <2>2, <2>3 DEF SinkGrows, AtWork
  <1>7. EndsWell(plan, k)'
    <2>1. ASSUME proc[k].state = "killed", plan[k + 1].in = ThePipe PROVE Over(k + 1)'
      <3>1. Over(k + 1)
        BY <1>2, <2>1 DEF AtWork, EndsWell
      <3>2. k + 1 \in Stages
        BY <1>1, <1>2, <2>1 DEF AtWork, EndsWell, WellFormed, Stages
      <3>3. k + 1 # i
        BY <3>1 DEF Over
      <3> QED
        BY <3>1, <3>2, <3>3 DEF Over
    <2> QED
      BY <1>1, <1>2, <2>1 DEF AtWork, EndsWell
  <1>8. HoldsEnds(plan, k)'
    <2>1. Holder(k)' = Holder(k) /\ Holder(k) # i /\ Holder(k) \in DOMAIN ends /\ Holder(k) \in {Parent, k}
      BY <1>1 DEF Holder, StageTypes
    <2>2. Over(k)' = Over(k) /\ (~Over(k) => EndsOf(plan, k) \subseteq ends[Holder(k)])
      BY <1>1, <1>2 DEF AtWork, HoldsEnds, Over
    <2>3. EndsOf(plan, k) \subseteq ends[Holder(k)] => EndsOf(plan, k) \subseteq ends'[Holder(k)]
      BY <2>1
    <2>4. EndsOf(plan, k)' = EndsOf(plan, k)
      BY DEF EndsOf
    <2> QED
      BY <2>1, <2>2, <2>3, <2>4 DEF HoldsEnds
  <1> QED
    BY <1>3, <1>5, <1>6, <1>7, <1>8 DEF AtWork

-----------------------------------------------------------------------------
(***************************************************************************)
(* A step of one of them.                                                  *)
(***************************************************************************)

\* The process i of the plan, and what it becomes.
LEMMA AtWorkNow ==
  ASSUME MaxStages \in Nat, NEW plan, WellFormed(plan), StageTypes, Net(plan),
         NEW i \in Stages, proc[i].state # "none"
  PROVE  /\ i \in 1 .. Len(plan) /\ proc[i] \in Processes /\ plan[i] \in Tasks
         /\ AtWork(plan, i) /\ Follows(plan[i], proc[i])
         /\ proc[i].out = plan[i].out
         /\ plan[i].in.kind # "file" => proc[i].in = plan[i].in
         /\ plan[i].in.kind = "file" => proc[i].in = [kind |-> "file", name |-> plan[i].in.name, pos |-> Got(plan[i], proc[i])]
         /\ proc[i].in = ThePipe <=> plan[i].in = ThePipe
         /\ proc[i].in.kind = plan[i].in.kind
         /\ i < Len(plan) => i + 1 \in 1 .. Len(plan)
         /\ Len(plan) \in Nat /\ i \in Nat
  <1>1. i \in 1 .. Len(plan) /\ proc[i] \in Processes /\ Len(plan) \in Nat /\ i \in Nat
    BY OneProcess DEF Net, WellFormed, Stages
  <1>2. AtWork(plan, i) /\ plan[i] \in Tasks /\ plan[i].in \in Places
    BY <1>1, OneTask DEF Net
  <1>3. Follows(plan[i], proc[i])
    BY <1>2 DEF AtWork
  <1>4. /\ proc[i].out = plan[i].out
        /\ plan[i].in.kind # "file" => proc[i].in = plan[i].in
        /\ plan[i].in.kind = "file" => proc[i].in = [kind |-> "file", name |-> plan[i].in.name, pos |-> Got(plan[i], proc[i])]
    BY <1>3 DEF Follows
  <1>5. proc[i].in = ThePipe <=> plan[i].in = ThePipe
    BY <1>2, <1>4, PlacesDiffer DEF ThePipe
  <1>6. proc[i].in.kind = plan[i].in.kind
    BY <1>4
  <1> QED
    BY <1>1, <1>2, <1>3, <1>4, <1>5, <1>6

LEMMA Leaves ==
  ASSUME MaxStages \in Nat, NEW plan, WellFormed(plan), StageTypes, Net(plan),
         NEW i \in Stages, proc[i].state = "runs", NEW how \in {"ended", "killed"},
         Leave(i, how), UNCHANGED << pipe, files, shown >>,
         how = "ended" => Put(plan[i], proc[i]) = Len(Told(plan[i])),
         how = "killed" => plan[i].out = ThePipe /\ (plan[i + 1].in = ThePipe => Over(i + 1))
  PROVE  Net(plan)'
  <1> PICK q : q = [proc[i] EXCEPT !.state = how]
    OBVIOUS
  <1>0. proc' = [proc EXCEPT ![i] = q] /\ ends' = [ends EXCEPT ![i] = {}]
    BY DEF Leave, Becomes
  <1>1. proc'[i] = q /\ \A k \in Stages : k # i => proc'[k] = proc[k]
    BY <1>0, Others
  <1>2. /\ i \in 1 .. Len(plan) /\ AtWork(plan, i) /\ proc[i] \in Processes /\ plan[i] \in Tasks
        /\ Follows(plan[i], proc[i])
    BY AtWorkNow
  <1>2a. Len(plan) \in Nat /\ i \in Nat
    BY AtWorkNow
  <1>3. /\ q.state = how /\ Follows(plan[i], q) /\ Got(plan[i], q) = Got(plan[i], proc[i])
        /\ Put(plan[i], q) = Put(plan[i], proc[i])
    BY ONLY <1>2, how \in {"ended", "killed"}, q = [proc[i] EXCEPT !.state = how], StateChanges
  <1>4. ASSUME NEW k \in 1 .. Len(plan), k # i PROVE AtWork(plan, k)'
    <2>1. \A j \in DOMAIN ends : j # i => ends'[j] = ends[j]
      BY <1>0
    <2>2. PipeKeeps(plan, k)'
      BY <1>1, <1>3, <1>4, PipesKeep
    <2>3. Parent # i /\ Parent \in DOMAIN ends
      BY DEF Parent, Stages, StageTypes
    <2> QED
      BY <1>1, <1>2, <1>4, <2>1, <2>2, <2>3, NeighboursKeep
  <1>5. AtWork(plan, i)'
    <2>1. PipeKeeps(plan, i)'
      <3>1. Sent(plan, i - 1)' = Sent(plan, i - 1)
        <4>1. i - 1 # 0 => i - 1 \in Stages /\ i - 1 # i
          BY ONLY i \in Stages, MaxStages \in Nat DEF Stages
        <4>2. i - 1 # 0 => proc'[i - 1] = proc[i - 1]
          BY ONLY <1>1, <4>1
        <4> QED
          BY ONLY <4>2 DEF Sent
      <3>2. pipe' = pipe /\ Got(plan[i], proc[i])' = Got(plan[i], proc[i])
        BY <1>1, <1>3
      <3> QED
        BY <1>2, <3>1, <3>2 DEF AtWork, PipeKeeps
    <2>2. SourceStays(plan, i)' /\ SinkGrows(plan, i)'
      BY <1>1, <1>2, <1>3 DEF AtWork, SourceStays, SinkGrows, Written1
    <2>3. EndsWell(plan, i)'
      <3>1. how = "killed" /\ plan[i + 1].in = ThePipe => Over(i + 1)'
        <4>1. i < Len(plan) => i + 1 \in Stages
          BY <1>2, <1>2a, OneTask DEF Stages
        <4> QED
          BY <1>1, <1>2, <1>2a, <4>1 DEF WellFormed, Over
      <3> QED
        BY <1>1, <1>3, <3>1 DEF EndsWell
    <2>4. HoldsEnds(plan, i)'
      BY <1>1, <1>3 DEF HoldsEnds, Over
    <2> QED
      BY <1>1, <1>3, <2>1, <2>2, <2>3, <2>4 DEF AtWork
  <1>6. \A k \in Stages : k > Len(plan) => proc'[k].state = "none"
    BY <1>1, <1>2, <1>2a DEF Net
  <1> QED
    BY <1>4, <1>5, <1>6 DEF Net

\* A write to a pipe with room, a file or the terminal.
LEMMA WritesItem ==
  ASSUME MaxStages \in Nat, NEW plan, WellFormed(plan), StageTypes, Net(plan),
         NEW i \in Stages, Writing(i), proc' = Written(i), UNCHANGED ends,
         \/ /\ proc[i].out = ThePipe
            /\ pipe' = [pipe EXCEPT ![i] = Append(@, Head(proc[i].text))]
            /\ UNCHANGED << files, shown >>
         \/ /\ proc[i].out = Tty
            /\ shown' = Append(shown, Head(proc[i].text))
            /\ UNCHANGED << pipe, files >>
         \/ /\ proc[i].out.kind = "file"
            /\ files' = [files EXCEPT ![proc[i].out.name] = Append(@, Head(proc[i].text))]
            /\ UNCHANGED << pipe, shown >>
  PROVE  Net(plan)'
  <1> PICK item : item = Head(proc[i].text)
    OBVIOUS
  <1> PICK q : q = [proc[i] EXCEPT !.text = Tail(@)]
    OBVIOUS
  <1>0. proc' = [proc EXCEPT ![i] = q] /\ proc[i].state = "runs" /\ proc[i].text # <<>>
    BY DEF Written, Writing
  <1>1. proc'[i] = q /\ \A k \in Stages : k # i => proc'[k] = proc[k]
    BY <1>0, Others
  <1>2. /\ i \in 1 .. Len(plan) /\ AtWork(plan, i) /\ proc[i] \in Processes /\ plan[i] \in Tasks
        /\ Follows(plan[i], proc[i]) /\ proc[i].out = plan[i].out
        /\ proc[i].in = ThePipe <=> plan[i].in = ThePipe
        /\ Len(plan) \in Nat /\ i \in Nat
    BY ONLY MaxStages \in Nat, WellFormed(plan), StageTypes, Net(plan), i \in Stages, <1>0, AtWorkNow
  <1>2a. Len(plan) \in Nat /\ i \in Nat
    BY <1>2
  <1>3. /\ q.state = "runs" /\ Follows(plan[i], q) /\ Got(plan[i], q) = Got(plan[i], proc[i])
        /\ Put(plan[i], q) = Put(plan[i], proc[i]) + 1
        /\ Put(plan[i], proc[i]) < Len(Told(plan[i]))
        /\ item = Told(plan[i])[Put(plan[i], proc[i]) + 1] /\ item \in Items
    BY ONLY <1>0, <1>2, q = [proc[i] EXCEPT !.text = Tail(@)], item = Head(proc[i].text), WritesOne
  <1>4. plan[i].out \in Places /\ Told(plan[i]) \in Seq(Items) /\ plan[i].base \in Seq(Items)
    BY <1>2, OneTask
  <1>5. Put(plan[i], proc[i]) \in Nat
    <2>1. Put(plan[i], proc[i]) \in Int
      BY ONLY <1>0, <1>2 DEF Put, Got, Processes, Tasks, Programs
    <2> QED
      BY <1>0, <1>2, <2>1 DEF Follows
  <1>6. Append(Written1(plan, i), item) = Written1(plan, i)'
    <2>1. Append(plan[i].base \o SubSeq(Told(plan[i]), 1, Put(plan[i], proc[i])), Told(plan[i])[Put(plan[i], proc[i]) + 1])
          = plan[i].base \o SubSeq(Told(plan[i]), 1, Put(plan[i], proc[i]) + 1)
      BY ONLY <1>3, <1>4, <1>5, PartGrows
    <2> QED
      BY ONLY <1>1, <1>3, <2>1 DEF Written1
  <1>11. /\ \A f \in Names : files'[f] = files[f] \/ (plan[i].out.kind = "file" /\ plan[i].out.name = f)
         /\ shown' = shown \/ plan[i].out = Tty
         /\ plan[i].out # ThePipe => pipe' = pipe
         /\ plan[i].out = ThePipe => pipe' = [pipe EXCEPT ![i] = Append(@, item)]
         /\ DOMAIN pipe' = DOMAIN pipe
    <2>1. DOMAIN files = Names
      BY DEF StageTypes
    <2>2. plan[i].out = ThePipe => plan[i].out # Tty /\ plan[i].out.kind # "file"
      BY DEF Tty, ThePipe
    <2> QED
      BY <1>2, <2>1, <2>2
  <1>7. ASSUME NEW k \in 1 .. Len(plan), k # i, PipeKeeps(plan, k)' PROVE AtWork(plan, k)'
    BY ONLY MaxStages \in Nat, WellFormed(plan), StageTypes, Net(plan), UNCHANGED ends, <1>0, <1>1, <1>2, <1>7, <1>11,
            NeighboursKeep
  <1>8. ASSUME NEW k \in 1 .. Len(plan), k # i PROVE PipeKeeps(plan, k)'
    <2>1. CASE k # i + 1 \/ plan[i].out # ThePipe
      <3>1. CASE plan[k].in = ThePipe
        <4>1. PipeKeeps(plan, k) /\ (k - 1 # i \/ plan[i].out # ThePipe)
          BY <1>2a, <1>8, <2>1 DEF Net, AtWork
        <4>2. pipe'[k - 1] = pipe[k - 1]
          BY <1>11, <3>1, <4>1 DEF PipeKeeps
        <4> QED
          BY ONLY MaxStages \in Nat, WellFormed(plan), Net(plan), i \in Stages, <1>1, <1>8, <1>11, <2>1, <4>2, PipesKeep
      <3> QED
        BY <3>1 DEF PipeKeeps
    <2>2. CASE k = i + 1 /\ plan[i].out = ThePipe
      <3>1. CASE plan[k].in = ThePipe
        <4> PICK old : old = pipe[i]
          OBVIOUS
        <4> PICK n : n = Put(plan[i], proc[i])
          OBVIOUS
        <4> PICK m : m = Got(plan[k], proc[k])
          OBVIOUS
        <4>1. /\ i \in DOMAIN pipe /\ Len(old) = n - m
              /\ \A j \in 1 .. Len(old) : old[j] = plan[k].input[m + j]
          BY <1>2a, <2>2, <3>1 DEF Net, AtWork, PipeKeeps, Sent, Stages
        <4>2. old \in Seq(Items)
          BY <4>1 DEF StageTypes
        <4>3. n \in Nat /\ m \in Int
          <5>1. Len(old) \in Nat
            BY <4>2
          <5>2. k \in Stages /\ plan[k] \in Tasks
            BY <1>8, OneTask
          <5>3. plan[k].program.copies \in Nat /\ (proc[k].state # "none" => proc[k].copies \in Nat)
            BY <5>2, OneProcess DEF Tasks, Programs, Processes
          <5>4. m \in Int
            BY ONLY <5>3, m = Got(plan[k], proc[k]) DEF Got
          <5> QED
            BY <1>5, <5>4
        <4>4. plan[k].input = Told(plan[i])
          BY <1>2a, <1>8, <2>2, <3>1 DEF WellFormed, Stages
        <4>5. item = plan[k].input[n + 1]
          BY <1>3, <4>4
        <4>6. pipe'[i] = Append(old, item)
          BY <1>11, <2>2, <4>1
        <4>7. /\ Len(Append(old, item)) = Len(old) + 1
              /\ \A j \in 1 .. Len(old) : Append(old, item)[j] = old[j]
              /\ Append(old, item)[Len(old) + 1] = item
          BY ONLY <1>3, <4>2
        <4>8. Len(Append(old, item)) = n + 1 - m
          BY ONLY <4>1, <4>3, <4>7
        <4>9. ASSUME NEW j \in 1 .. Len(Append(old, item)) PROVE Append(old, item)[j] = plan[k].input[m + j]
          <5>1. Len(old) \in Nat
            BY <4>2
          <5>2. CASE j \in 1 .. Len(old)
            BY ONLY <4>1, <4>7, <5>2
          <5>3. CASE j = Len(old) + 1
            <6>1. m + j = n + 1
              BY ONLY <4>1, <4>3, <5>1, <5>3
            <6> QED
              BY ONLY <4>5, <4>7, <5>3, <6>1
          <5>4. j \in 1 .. Len(old) \/ j = Len(old) + 1
            BY ONLY <4>7, <5>1, j \in 1 .. Len(Append(old, item))
          <5> QED
            BY ONLY <5>2, <5>3, <5>4
        <4>10. k - 1 = i /\ Got(plan[k], proc'[k]) = m /\ Sent(plan, k - 1)' = n + 1
          <5>1. k - 1 = i /\ k \in Stages /\ i # 0
            BY <1>2a, <1>8, <2>2, OneTask DEF Stages
          <5>2. proc'[k] = proc[k]
            BY ONLY <1>1, <1>8, <5>1
          <5>3. Sent(plan, k - 1)' = Put(plan[i], proc'[i])
            BY ONLY <2>2, <5>1 DEF Sent
          <5> QED
            BY ONLY <1>1, <1>3, <5>1, <5>2, <5>3, n = Put(plan[i], proc[i]), m = Got(plan[k], proc[k])
        <4>11. i \in DOMAIN pipe'
          BY <1>11, <4>1
        <4>12. pipe'[k - 1] = Append(old, item) /\ k - 1 \in DOMAIN pipe'
          BY ONLY <4>6, <4>10, <4>11
        <4>13. /\ Len(pipe'[k - 1]) = Sent(plan, k - 1)' - Got(plan[k], proc'[k])
               /\ \A j \in 1 .. Len(pipe'[k - 1]) : pipe'[k - 1][j] = plan[k].input[Got(plan[k], proc'[k]) + j]
          <5>1. Len(pipe'[k - 1]) = Sent(plan, k - 1)' - Got(plan[k], proc'[k])
            <6>1. Len(pipe'[k - 1]) = n + 1 - m
              BY ONLY <4>8, <4>12
            <6>2. Sent(plan, k - 1)' = n + 1 /\ Got(plan[k], proc'[k]) = m
              BY ONLY <4>10
            <6> QED
              BY ONLY <4>3, <6>1, <6>2
          <5>2. \A j \in 1 .. Len(pipe'[k - 1]) : pipe'[k - 1][j] = plan[k].input[Got(plan[k], proc'[k]) + j]
            BY ONLY <4>9, <4>10, <4>12
          <5> QED
            BY <5>1, <5>2
        <4> QED
          BY ONLY <4>12, <4>13 DEF PipeKeeps
      <3> QED
        BY <3>1 DEF PipeKeeps
    <2> QED
      BY <2>1, <2>2
  <1>9. AtWork(plan, i)'
    <2>1. PipeKeeps(plan, i)'
      <3>1. Sent(plan, i - 1)' = Sent(plan, i - 1)
        <4>1. i - 1 # 0 => i - 1 \in Stages /\ i - 1 # i
          BY ONLY i \in Stages, MaxStages \in Nat DEF Stages
        <4>2. i - 1 # 0 => proc'[i - 1] = proc[i - 1]
          BY ONLY <1>1, <4>1
        <4> QED
          BY ONLY <4>2 DEF Sent
      <3>2. Got(plan[i], proc[i])' = Got(plan[i], proc[i])
        BY <1>1, <1>3
      <3>3. plan[i].in = ThePipe => pipe'[i - 1] = pipe[i - 1]
        <4>1. plan[i].in = ThePipe => i - 1 \in DOMAIN pipe /\ i - 1 # i
          BY ONLY <1>0, <1>2, StageTypes, i \in Stages DEF StageTypes
        <4> QED
          BY <4>1
      <3> QED
        BY <1>2, <3>1, <3>2, <3>3 DEF AtWork, PipeKeeps
    <2>2. SourceStays(plan, i)'
      <3>1. ASSUME plan[i].in.kind = "file" PROVE files'[plan[i].in.name] = files[plan[i].in.name]
        <4>1. plan[i].in.name \in DOMAIN files
          BY ONLY <1>2, <3>1, StageTypes, PlacesDiffer DEF StageTypes, Tasks
        <4>2. plan[i].out.kind = "file" => plan[i].out.name # plan[i].in.name
          BY ONLY <1>2, <3>1, WellFormed(plan) DEF WellFormed
        <4> QED
          BY <1>2, <4>1, <4>2
      <3> QED
        BY <1>2, <3>1 DEF AtWork, SourceStays
    <2>3. SinkGrows(plan, i)'
      <3>1. plan[i].out = Tty => plan[i].out.kind # "file" /\ plan[i].out # ThePipe
        BY DEF Tty, ThePipe
      <3>2. plan[i].out.kind = "file" => plan[i].out # Tty /\ plan[i].out # ThePipe
        BY DEF Tty, ThePipe
      <3>3. ASSUME plan[i].out = Tty PROVE shown' = Written1(plan, i)'
        BY <1>2, <1>6, <3>1, <3>3 DEF AtWork, SinkGrows
      <3>4. ASSUME plan[i].out.kind = "file" PROVE files'[plan[i].out.name] = Written1(plan, i)'
        <4>1. plan[i].out.name \in DOMAIN files
          BY <1>4, <3>4, PlacesDiffer DEF StageTypes
        <4>2. files[plan[i].out.name] = Written1(plan, i)
          <5>1. SinkGrows(plan, i) /\ proc[i].state # "none"
            BY ONLY <1>0, <1>2 DEF AtWork
          <5> QED
            BY ONLY <3>4, <5>1 DEF SinkGrows
        <4> PICK name : name = plan[i].out.name
          OBVIOUS
        <4>3. files' = [files EXCEPT ![name] = Append(@, item)]
          <5>1. proc[i].out = plan[i].out
            BY ONLY <1>2
          <5>2. files' = [files EXCEPT ![proc[i].out.name] = Append(@, Head(proc[i].text))]
            BY <3>2, <3>4, <5>1
          <5> QED
            BY ONLY <5>1, <5>2, name = plan[i].out.name, item = Head(proc[i].text)
        <4>4. files'[name] = Append(files[name], item)
          BY ONLY <4>1, <4>3, name = plan[i].out.name
        <4> QED
          BY ONLY <1>6, <4>2, <4>4, name = plan[i].out.name
      <3> QED
        BY <3>3, <3>4 DEF SinkGrows
    <2>4. EndsWell(plan, i)'
      BY <1>1, <1>3 DEF EndsWell
    <2>5. HoldsEnds(plan, i)'
      BY <1>0, <1>1, <1>2, <1>3 DEF AtWork, HoldsEnds, Over, Holder, EndsOf
    <2> QED
      BY <1>1, <1>3, <2>1, <2>2, <2>3, <2>4, <2>5 DEF AtWork
  <1>10. \A k \in Stages : k > Len(plan) => proc'[k].state = "none"
    BY <1>1, <1>2, <1>2a DEF Net
  <1> QED
    BY <1>7, <1>8, <1>9, <1>10 DEF Net

\* A step that leaves process i running, with what it has written, and with the ends
\* of its pipes.
LEMMA GoesOn ==
  ASSUME MaxStages \in Nat, NEW plan, WellFormed(plan), StageTypes, Net(plan),
         NEW i \in Stages, proc[i].state \in {"forked", "runs"},
         NEW q, proc' = [proc EXCEPT ![i] = q], q.state = "runs",
         Follows(plan[i], q), Put(plan[i], q) = Put(plan[i], proc[i]),
         UNCHANGED << files, shown >>,
         \A j \in DOMAIN ends : j # i => ends'[j] = ends[j], EndsOf(plan, i) \subseteq ends'[i],
         DOMAIN pipe' = DOMAIN pipe,
         \A k \in 1 .. Len(plan) : k # i /\ plan[k].in = ThePipe => pipe'[k - 1] = pipe[k - 1],
         PipeKeeps(plan, i)'
  PROVE  Net(plan)'
  <1>1. proc'[i] = q /\ \A k \in Stages : k # i => proc'[k] = proc[k]
    BY Others
  <1>2. i \in 1 .. Len(plan) /\ AtWork(plan, i) /\ Len(plan) \in Nat
    BY AtWorkNow
  <1>3. Parent # i /\ Parent \in DOMAIN ends
    BY DEF Parent, Stages, StageTypes
  <1>4. ASSUME NEW k \in 1 .. Len(plan), k # i PROVE AtWork(plan, k)'
    <2>1. PipeKeeps(plan, k)'
      <3>1. CASE plan[k].in = ThePipe
        BY <1>1, <1>4, <3>1, PipesKeep
      <3> QED
        BY <3>1 DEF PipeKeeps
    <2> QED
      BY <1>1, <1>2, <1>3, <1>4, <2>1, NeighboursKeep
  <1>5. AtWork(plan, i)'
    <2>1. Follows(plan[i], proc[i])' /\ SourceStays(plan, i)' /\ EndsWell(plan, i)'
      BY <1>1, <1>2 DEF AtWork, SourceStays, EndsWell
    <2>2. SinkGrows(plan, i)'
      BY <1>1, <1>2 DEF AtWork, SinkGrows, Written1
    <2>3. HoldsEnds(plan, i)'
      BY <1>1 DEF HoldsEnds, Holder, EndsOf
    <2> QED
      BY <2>1, <2>2, <2>3 DEF AtWork
  <1>6. \A k \in Stages : k > Len(plan) => proc'[k].state = "none"
    BY <1>1, <1>2 DEF Net
  <1> QED
    BY <1>4, <1>5, <1>6 DEF Net

LEMMA PutFits ==
  ASSUME NEW t \in Tasks, NEW p \in Processes \cup {Nothing}, Follows(t, p)
  PROVE  /\ Got(t, p) \in Nat /\ Got(t, p) <= Len(t.input)
         /\ Put(t, p) \in Nat /\ Put(t, p) <= Len(Told(t)) /\ Len(Told(t)) \in Nat
  <1>0. /\ t.program.copies \in Nat /\ Len(t.program.text) \in Nat /\ Len(t.input) \in Nat
    BY DEF Tasks, Programs
  <1>1. Len(Told(t)) = Len(t.program.text) + Smaller(t.program.copies, Len(t.input))
    BY OutputIs DEF Told, Tasks
  <1>2. Smaller(t.program.copies, Len(t.input)) \in Nat
    BY <1>0 DEF Smaller
  <1>3. CASE p.state = "none"
    BY <1>0, <1>1, <1>2, <1>3 DEF Got, Put
  <1>4. CASE p.state # "none"
    <2>1. p \in Processes
      BY <1>4 DEF Nothing
    <2>2. p.copies \in Nat /\ Len(p.text) \in Nat
      BY <2>1 DEF Processes
    <2>3. p.copies <= t.program.copies /\ Got(t, p) <= Len(t.input) /\ 0 <= Put(t, p)
      BY <1>4 DEF Follows
    <2>4. Got(t, p) = t.program.copies - p.copies /\ Put(t, p) = Len(t.program.text) + Got(t, p) - Len(p.text)
      BY <1>4 DEF Got, Put
    <2>5. Got(t, p) \in Nat
      BY ONLY <1>0, <2>2, <2>3, <2>4
    <2>6. Got(t, p) <= Smaller(t.program.copies, Len(t.input))
      BY ONLY <1>0, <2>2, <2>3, <2>4 DEF Smaller
    <2> QED
      <3>1. Put(t, p) \in Nat
        <4> PICK a : a = Len(t.program.text)
          OBVIOUS
        <4> PICK b : b = Got(t, p)
          OBVIOUS
        <4> PICK c : c = Len(p.text)
          OBVIOUS
        <4> PICK e : e = Put(t, p)
          OBVIOUS
        <4>1. a \in Nat /\ b \in Nat /\ c \in Nat
          BY ONLY <1>0, <2>2, <2>5, a = Len(t.program.text), b = Got(t, p), c = Len(p.text)
        <4>2. e = a + b - c /\ 0 <= e
          BY ONLY <2>3, <2>4, a = Len(t.program.text), b = Got(t, p), c = Len(p.text), e = Put(t, p)
        <4>3. e \in Nat
          BY ONLY <4>1, <4>2
        <4> QED
          BY ONLY <4>3, e = Put(t, p)
      <3>2. Put(t, p) <= Len(Told(t)) /\ Len(Told(t)) \in Nat
        <4> PICK a : a = Len(t.program.text)
          OBVIOUS
        <4> PICK b : b = Got(t, p)
          OBVIOUS
        <4> PICK c : c = Len(p.text)
          OBVIOUS
        <4> PICK d : d = Smaller(t.program.copies, Len(t.input))
          OBVIOUS
        <4>1. a \in Nat /\ b \in Nat /\ c \in Nat /\ d \in Nat /\ b <= d
          BY ONLY <1>0, <1>2, <2>2, <2>5, <2>6, a = Len(t.program.text), b = Got(t, p), c = Len(p.text),
                  d = Smaller(t.program.copies, Len(t.input))
        <4>2. Put(t, p) = a + b - c
          BY ONLY <2>4, a = Len(t.program.text), b = Got(t, p), c = Len(p.text)
        <4>3. Len(Told(t)) = a + d
          BY ONLY <1>1, a = Len(t.program.text), d = Smaller(t.program.copies, Len(t.input))
        <4> QED
          BY ONLY <4>1, <4>2, <4>3
      <3> QED
        BY ONLY <2>3, <2>5, <3>1, <3>2
  <1> QED
    BY <1>3, <1>4

\* What is in the pipe has been sent, and nothing is sent that is not the input.
LEMMA SentIsInput ==
  ASSUME MaxStages \in Nat, NEW plan, WellFormed(plan), StageTypes, Net(plan),
         NEW i \in 1 .. Len(plan), plan[i].in = ThePipe
  PROVE  Sent(plan, i - 1) \in Nat /\ Sent(plan, i - 1) <= Len(plan[i].input)
  <1>1. i \in Nat /\ plan[i].input \in Seq(Items) /\ Len(plan[i].input) \in Nat
    BY OneTask
  <1>2. CASE i = 1
    BY <1>1, <1>2 DEF Sent
  <1>3. CASE i > 1
    <2>1. i - 1 \in 1 .. Len(plan) /\ i - 1 # 0
      BY <1>1, <1>3 DEF WellFormed
    <2>2. plan[i - 1] \in Tasks /\ proc[i - 1] \in Processes \cup {Nothing} /\ Follows(plan[i - 1], proc[i - 1])
      BY <2>1, OneTask DEF StageTypes, Net, AtWork
    <2>3. plan[i].input = IF plan[i - 1].out = ThePipe THEN Told(plan[i - 1]) ELSE <<>>
      BY <1>3 DEF WellFormed
    <2>4. Put(plan[i - 1], proc[i - 1]) \in Nat /\ Put(plan[i - 1], proc[i - 1]) <= Len(Told(plan[i - 1]))
      BY <2>2, PutFits
    <2> QED
      BY <1>1, <2>1, <2>3, <2>4 DEF Sent
  <1> QED
    BY <1>1, <1>2, <1>3

LEMMA CopiedIs ==
  ASSUME NEW p \in Processes, p.copies > 0, NEW item \in Items
  PROVE  LET q == [p EXCEPT !.text = <<item>>, !.copies = @ - 1]
         IN  /\ q \in Processes /\ q.state = p.state /\ q.text = <<item>> /\ q.copies = p.copies - 1
             /\ q.in = p.in /\ q.out = p.out
  <1> PICK s : s = <<item>>
    OBVIOUS
  <1> PICK c : c = p.copies - 1
    OBVIOUS
  <1>1. s \in Seq(Items) /\ c \in Nat
    BY DEF Processes
  <1>2. [p EXCEPT !.text = <<item>>, !.copies = @ - 1] = [p EXCEPT !.text = s, !.copies = c]
    BY DEF Processes
  <1> PICK h : h = [p EXCEPT !.text = s]
    OBVIOUS
  <1> PICK q : q = [h EXCEPT !.copies = c]
    OBVIOUS
  <1>3. [p EXCEPT !.text = s, !.copies = c] = q
    BY ONLY h = [p EXCEPT !.text = s], q = [h EXCEPT !.copies = c], p \in Processes DEF Processes
  <1>4. /\ h \in Processes /\ h.state = p.state /\ h.text = s /\ h.copies = p.copies
        /\ h.in = p.in /\ h.out = p.out
    BY ONLY <1>1, p \in Processes, h = [p EXCEPT !.text = s] DEF Processes
  <1>5. /\ q \in Processes /\ q.state = h.state /\ q.text = h.text /\ q.copies = c
        /\ q.in = h.in /\ q.out = h.out
    BY ONLY <1>1, <1>4, q = [h EXCEPT !.copies = c] DEF Processes
  <1>6. /\ q \in Processes /\ q.state = p.state /\ q.text = <<item>> /\ q.copies = p.copies - 1
        /\ q.in = p.in /\ q.out = p.out
    BY ONLY <1>4, <1>5, s = <<item>>, c = p.copies - 1
  <1>7. [p EXCEPT !.text = <<item>>, !.copies = @ - 1] = q
    BY ONLY <1>2, <1>3
  <1> QED
    BY ONLY <1>6, <1>7, Zenon

LEMMA ReadsAPipe ==
  ASSUME MaxStages \in Nat, NEW plan, WellFormed(plan), StageTypes, Net(plan),
         NEW i \in Stages, ReadFromPipe(i)
  PROVE  Net(plan)'
  <1> PICK p : p = proc[i]
    OBVIOUS
  <1> PICK held : held = pipe[i - 1]
    OBVIOUS
  <1> PICK item : item = Head(held)
    OBVIOUS
  <1> PICK q : q = [p EXCEPT !.text = <<item>>, !.copies = @ - 1]
    OBVIOUS
  <1> PICK g : g = Got(plan[i], p)
    OBVIOUS
  <1>0. /\ proc' = [proc EXCEPT ![i] = q] /\ p.state = "runs" /\ p.text = <<>> /\ p.copies > 0
        /\ p.in = ThePipe /\ held # <<>>
        /\ pipe' = [pipe EXCEPT ![i - 1] = Tail(held)] /\ UNCHANGED << ends, files, shown >>
    BY DEF ReadFromPipe, Reading, Becomes, Copied
  <1>1. /\ i \in 1 .. Len(plan) /\ p \in Processes /\ plan[i] \in Tasks /\ AtWork(plan, i)
        /\ Follows(plan[i], p) /\ plan[i].in = ThePipe /\ Len(plan) \in Nat /\ i \in Nat
    BY <1>0, AtWorkNow
  <1>2. i - 1 \in DOMAIN pipe /\ held \in Seq(Items)
    BY <1>1 DEF AtWork, PipeKeeps, StageTypes
  <1>3. /\ item \in Items /\ Len(held) \in Nat \ {0} /\ item = held[1] /\ Tail(held) \in Seq(Items)
        /\ Len(Tail(held)) = Len(held) - 1
        /\ \A k \in 1 .. Len(Tail(held)) : Tail(held)[k] = held[k + 1]
    BY ONLY <1>0, <1>2, item = Head(held)
  <1>4. /\ q \in Processes /\ q.state = "runs" /\ q.text = <<item>> /\ q.copies = p.copies - 1
        /\ q.in = p.in /\ q.out = p.out
    <2>1. p \in Processes /\ p.copies > 0 /\ item \in Items /\ p.state = "runs"
      BY <1>0, <1>1, <1>3
    <2> QED
      BY ONLY <2>1, q = [p EXCEPT !.text = <<item>>, !.copies = @ - 1], CopiedIs, Zenon
  <1>5. Len(held) = Sent(plan, i - 1) - g /\ \A k \in 1 .. Len(held) : held[k] = plan[i].input[g + k]
    BY <1>1 DEF AtWork, PipeKeeps
  <1>6. Sent(plan, i - 1) \in Nat /\ Sent(plan, i - 1) <= Len(plan[i].input) /\ Len(plan[i].input) \in Nat
    BY <1>1, SentIsInput DEF Tasks
  <1>7. g \in Nat
    BY <1>1, PutFits
  <1>8. g < Len(plan[i].input) /\ item = plan[i].input[g + 1]
    <2>1. g < Len(plan[i].input)
      BY ONLY <1>3, <1>5, <1>6, <1>7
    <2> QED
      BY ONLY <1>3, <1>5, <2>1
  <1>9. plan[i].in.kind # "file"
    BY <1>1 DEF ThePipe
  <1>10. Follows(plan[i], q) /\ Got(plan[i], q) = g + 1 /\ Put(plan[i], q) = Put(plan[i], p)
    <2>1. p.text = <<>> /\ p.copies > 0 /\ p.state = "runs"
      BY <1>0
    <2>2. Got(plan[i], p) < Len(plan[i].input) /\ item = plan[i].input[Got(plan[i], p) + 1]
      BY <1>8
    <2>3. /\ q \in Processes /\ q.state = p.state /\ q.text = <<item>> /\ q.copies = p.copies - 1 /\ q.out = p.out
          /\ q.in = IF plan[i].in.kind = "file" THEN [kind |-> "file", name |-> plan[i].in.name, pos |-> Got(plan[i], p) + 1]
                    ELSE p.in
      BY <1>4, <1>9, <2>1
    <2>4. plan[i] \in Tasks /\ p \in Processes /\ Follows(plan[i], p)
      BY <1>1
    <2>5. Follows(plan[i], q) /\ Got(plan[i], q) = Got(plan[i], p) + 1 /\ Put(plan[i], q) = Put(plan[i], p)
      BY ONLY <2>1, <2>2, <2>3, <2>4, ReadsOne
    <2> QED
      BY ONLY <2>5, g = Got(plan[i], p)
  <1>11. PipeKeeps(plan, i)'
    <2>1. Sent(plan, i - 1)' = Sent(plan, i - 1)
      <3>1. i - 1 # 0 => i - 1 \in Stages /\ i - 1 # i
        BY ONLY i \in Stages, MaxStages \in Nat DEF Stages
      <3>2. i - 1 # 0 => proc'[i - 1] = proc[i - 1]
        BY <1>0, <3>1, Others
      <3> QED
        BY ONLY <3>2 DEF Sent
    <2>2. pipe'[i - 1] = Tail(held) /\ i - 1 \in DOMAIN pipe' /\ proc'[i] = q
      BY <1>0, <1>2, Others
    <2>3. Len(Tail(held)) = Sent(plan, i - 1) - (g + 1)
      BY ONLY <1>3, <1>5, <1>6, <1>7
    <2>4. ASSUME NEW k \in 1 .. Len(Tail(held)) PROVE Tail(held)[k] = plan[i].input[g + 1 + k]
      <3>1. k + 1 \in 1 .. Len(held) /\ g + (k + 1) = g + 1 + k
        BY ONLY <1>3, <1>7, k \in 1 .. Len(Tail(held))
      <3>2. held[k + 1] = plan[i].input[g + (k + 1)]
        BY ONLY <1>5, <3>1
      <3> QED
        BY ONLY <1>3, <3>1, <3>2, k \in 1 .. Len(Tail(held))
    <2>5. Sent(plan, i - 1)' \in Nat
      BY <1>6, <2>1
    <2>6. Len(pipe'[i - 1]) = Sent(plan, i - 1)' - Got(plan[i], proc'[i])
      BY ONLY <1>6, <1>7, <1>10, <2>1, <2>2, <2>3, <2>5
    <2>7. \A k \in 1 .. Len(pipe'[i - 1]) : pipe'[i - 1][k] = plan[i].input[Got(plan[i], proc'[i]) + k]
      BY ONLY <1>10, <2>2, <2>4
    <2> QED
      BY ONLY <2>2, <2>6, <2>7 DEF PipeKeeps
  <1>12. ASSUME NEW k \in 1 .. Len(plan), k # i, plan[k].in = ThePipe PROVE pipe'[k - 1] = pipe[k - 1]
    <2>1. k - 1 \in DOMAIN pipe /\ k - 1 # i - 1
      BY <1>1, <1>12 DEF Net, AtWork, PipeKeeps
    <2> QED
      BY <1>0, <2>1
  <1>13. DOMAIN pipe' = DOMAIN pipe
    BY <1>0
  <1>14. EndsOf(plan, i) \subseteq ends'[i]
    BY <1>0, <1>1 DEF AtWork, HoldsEnds, Holder, Over
  <1> QED
    BY <1>0, <1>4, <1>10, <1>11, <1>12, <1>13, <1>14, GoesOn

LEMMA ReadsAFile ==
  ASSUME MaxStages \in Nat, NEW plan, WellFormed(plan), StageTypes, Net(plan),
         NEW i \in Stages, ReadFromFile(i)
  PROVE  Net(plan)'
  <1> PICK p : p = proc[i]
    OBVIOUS
  <1> PICK g : g = Got(plan[i], p)
    OBVIOUS
  <1> PICK input : input = plan[i].input
    OBVIOUS
  <1> PICK item : item = input[g + 1]
    OBVIOUS
  <1> PICK h : h = [p EXCEPT !.text = <<item>>, !.copies = @ - 1]
    OBVIOUS
  <1> PICK q : q = [h EXCEPT !.in.pos = g + 1]
    OBVIOUS
  <1>1. p.state = "runs" /\ p.text = <<>> /\ p.copies > 0 /\ p.in.kind = "file"
    BY DEF ReadFromFile, Reading
  <1>2. /\ i \in 1 .. Len(plan) /\ p \in Processes /\ plan[i] \in Tasks /\ AtWork(plan, i)
        /\ Follows(plan[i], p) /\ plan[i].in.kind = "file"
        /\ p.in = [kind |-> "file", name |-> plan[i].in.name, pos |-> g]
        /\ plan[i].in \in Places /\ input \in Seq(Items)
    BY <1>1, AtWorkNow, OneTask
  <1>3. p.in.name = plan[i].in.name /\ p.in.pos = g
    BY ONLY <1>2
  <1>4. files[p.in.name] = input
    BY <1>2, <1>3 DEF AtWork, SourceStays
  <1>5. g \in Nat /\ Len(input) \in Nat
    BY <1>2, PutFits
  <1>6. g + 1 <= Len(input) /\ proc' = [proc EXCEPT ![i] = q] /\ UNCHANGED << pipe, ends, files, shown >>
    <2>1. files[proc[i].in.name] = input /\ proc[i].in.pos + 1 = g + 1
      BY <1>3, <1>4
    <2>2. g + 1 <= Len(input) /\ Becomes(i, [Copied(i, input[g + 1]) EXCEPT !.in.pos = g + 1])
          /\ UNCHANGED << pipe, ends, files, shown >>
      BY ONLY <2>1, ReadFromFile(i) DEF ReadFromFile
    <2>3. [Copied(i, input[g + 1]) EXCEPT !.in.pos = g + 1] = q
      BY ONLY p = proc[i], item = input[g + 1], h = [p EXCEPT !.text = <<item>>, !.copies = @ - 1],
              q = [h EXCEPT !.in.pos = g + 1], Zenon DEF Copied
    <2> QED
      BY ONLY <2>2, <2>3 DEF Becomes
  <1>7. item \in Items
    BY <1>2, <1>5, <1>6
  <1>8. /\ h \in Processes /\ h.state = p.state /\ h.text = <<item>> /\ h.copies = p.copies - 1
        /\ h.in = p.in /\ h.out = p.out
    <2>1. p \in Processes /\ p.copies > 0 /\ item \in Items
      BY <1>1, <1>2, <1>7
    <2> QED
      BY ONLY <2>1, h = [p EXCEPT !.text = <<item>>, !.copies = @ - 1], CopiedIs, Zenon
  <1>9. /\ q \in Processes /\ q.state = p.state /\ q.text = <<item>> /\ q.copies = p.copies - 1
        /\ q.out = p.out /\ q.in = [kind |-> "file", name |-> plan[i].in.name, pos |-> g + 1]
    <2> PICK r : r = [h.in EXCEPT !.pos = g + 1]
      OBVIOUS
    <2>1. q = [h EXCEPT !.in = r]
      BY ONLY q = [h EXCEPT !.in.pos = g + 1], r = [h.in EXCEPT !.pos = g + 1], <1>8 DEF Processes
    <2>2. r = [kind |-> "file", name |-> plan[i].in.name, pos |-> g + 1]
      BY ONLY r = [h.in EXCEPT !.pos = g + 1], <1>2, <1>8
    <2>3. r \in Places
      <3>1. plan[i].in.name \in Names
        BY ONLY <1>2, PlacesDiffer
      <3>2. g + 1 \in Nat
        BY ONLY <1>5
      <3> QED
        BY ONLY <2>2, <3>1, <3>2 DEF Places
    <2>4. /\ q \in Processes /\ q.state = h.state /\ q.text = h.text /\ q.copies = h.copies /\ q.out = h.out
          /\ q.in = r
      BY ONLY <1>8, <2>1, <2>3 DEF Processes
    <2> QED
      BY ONLY <1>8, <2>2, <2>4
  <1>10. Follows(plan[i], q) /\ Got(plan[i], q) = g + 1 /\ Put(plan[i], q) = Put(plan[i], p)
    <2>2. Got(plan[i], p) < Len(plan[i].input) /\ item = plan[i].input[Got(plan[i], p) + 1]
      BY <1>5, <1>6
    <2>3. q.in = IF plan[i].in.kind = "file" THEN [kind |-> "file", name |-> plan[i].in.name, pos |-> Got(plan[i], p) + 1]
                    ELSE p.in
      BY <1>2, <1>9
    <2>5. Follows(plan[i], q) /\ Got(plan[i], q) = Got(plan[i], p) + 1 /\ Put(plan[i], q) = Put(plan[i], p)
      BY ONLY <1>1, <1>2, <1>9, <2>2, <2>3, ReadsOne
    <2> QED
      BY ONLY <2>5, g = Got(plan[i], p)
  <1>11. PipeKeeps(plan, i)'
    <2>1. plan[i].in # ThePipe
      BY <1>2 DEF ThePipe
    <2> QED
      BY <2>1 DEF PipeKeeps
  <1>12. EndsOf(plan, i) \subseteq ends'[i]
    BY <1>1, <1>2, <1>6 DEF AtWork, HoldsEnds, Holder, Over
  <1> QED
    BY <1>1, <1>6, <1>9, <1>10, <1>11, <1>12, GoesOn

\* At the end of its input a command has all of it.
LEMMA EndOfInputIs ==
  ASSUME MaxStages \in Nat, NEW plan, WellFormed(plan), StageTypes, Net(plan),
         NEW i \in Stages, proc[i].state = "runs", AtEnd(i)
  PROVE  Got(plan[i], proc[i]) = Len(plan[i].input)
  <1>1. /\ i \in 1 .. Len(plan) /\ proc[i] \in Processes /\ plan[i] \in Tasks /\ AtWork(plan, i)
        /\ Follows(plan[i], proc[i]) /\ Len(plan) \in Nat /\ i \in Nat
        /\ proc[i].in = ThePipe <=> plan[i].in = ThePipe
        /\ proc[i].in.kind = plan[i].in.kind
    BY AtWorkNow
  <1>2. plan[i].input \in Seq(Items) /\ plan[i].in \in Places
    BY <1>1, OneTask
  <1>3. Got(plan[i], proc[i]) \in Nat /\ Got(plan[i], proc[i]) <= Len(plan[i].input) /\ Len(plan[i].input) \in Nat
    BY <1>1, <1>2, PutFits
  <1>4. CASE plan[i].in = ThePipe
    <2>1. pipe[i - 1] = <<>> /\ Writers(i - 1) = {}
      <3>1. proc[i].in = ThePipe
        BY <1>1, <1>4
      <3> QED
        BY ONLY <3>1, AtEnd(i) DEF AtEnd, ThePipe
    <2>2. Sent(plan, i - 1) = Got(plan[i], proc[i])
      <3>1. 0 = Sent(plan, i - 1) - Got(plan[i], proc[i])
        BY <1>1, <1>4, <2>1 DEF AtWork, PipeKeeps
      <3>2. Sent(plan, i - 1) \in Nat
        BY <1>1, <1>4, SentIsInput
      <3> QED
        BY ONLY <1>3, <3>1, <3>2
    <2>3. CASE i = 1
      BY <1>1, <2>2, <2>3 DEF Sent
    <2>4. CASE i > 1
      <3>1. i - 1 \in 1 .. Len(plan) /\ i - 1 # 0 /\ i - 1 \in Stages
        BY <1>1, <2>4 DEF Stages
      <3>2. plan[i].input = IF plan[i - 1].out = ThePipe THEN Told(plan[i - 1]) ELSE <<>>
        BY <1>1, <1>4, <2>4 DEF WellFormed
      <3>3. CASE plan[i - 1].out = ThePipe
        <4>1. AtWork(plan, i - 1)
          BY <3>1 DEF Net
        <4>2. Over(i - 1)
          <5> SUFFICES ASSUME ~Over(i - 1) PROVE FALSE
            OBVIOUS
          <5>1. << i - 1, "w" >> \in ends[Holder(i - 1)]
            BY <3>3, <4>1 DEF AtWork, HoldsEnds, EndsOf
          <5>2. Holder(i - 1) \in DOMAIN ends
            BY <3>1 DEF Holder, StageTypes
          <5> QED
            BY <2>1, <5>1, <5>2 DEF Writers
        <4>3. proc[i - 1].state # "killed"
          <5> SUFFICES ASSUME proc[i - 1].state = "killed" PROVE FALSE
            OBVIOUS
          <5>1. i - 1 + 1 = i
            BY <1>1
          <5>2. Over(i)
            BY <1>4, <4>1, <5>1 DEF AtWork, EndsWell
          <5> QED
            BY <5>2 DEF Over
        <4>4. Put(plan[i - 1], proc[i - 1]) = Len(Told(plan[i - 1]))
          BY <4>1, <4>2, <4>3 DEF AtWork, EndsWell, Over
        <4> QED
          BY <2>2, <3>1, <3>2, <3>3, <4>4 DEF Sent
      <3>4. CASE plan[i - 1].out # ThePipe
        <4>1. Len(plan[i].input) = 0
          BY <3>2, <3>4
        <4> QED
          BY ONLY <1>3, <4>1
      <3> QED
        BY <3>3, <3>4
    <2> QED
      BY <1>1, <2>3, <2>4
  <1>5. CASE plan[i].in.kind = "file"
    <2>1. proc[i].in = [kind |-> "file", name |-> plan[i].in.name, pos |-> Got(plan[i], proc[i])]
      BY <1>5, AtWorkNow
    <2>2. proc[i].in # ThePipe
      BY <1>5, <2>1 DEF ThePipe
    <2>3. Got(plan[i], proc[i]) >= Len(files[plan[i].in.name])
      BY <1>1, <1>5, <2>1, <2>2 DEF AtEnd
    <2>4. files[plan[i].in.name] = plan[i].input
      BY <1>1, <1>5 DEF AtWork, SourceStays
    <2> QED
      BY ONLY <1>3, <2>3, <2>4
  <1>6. CASE plan[i].in = Tty
    <2>1. Len(plan[i].input) = 0
      BY <1>1, <1>6 DEF WellFormed
    <2> QED
      BY ONLY <1>3, <2>1
  <1>7. plan[i].in # NoFile
    BY <1>1 DEF WellFormed
  <1> QED
    BY <1>2, <1>4, <1>5, <1>6, <1>7, PlacesDiffer

LEMMA FinishesTask ==
  ASSUME MaxStages \in Nat, NEW plan, WellFormed(plan), StageTypes, Net(plan),
         NEW i \in Stages, Finish(i)
  PROVE  Net(plan)'
  <1>1. /\ proc[i].state = "runs" /\ proc[i].text = <<>> /\ (proc[i].copies = 0 \/ AtEnd(i))
        /\ Leave(i, "ended") /\ UNCHANGED << pipe, files, shown >>
    BY DEF Finish
  <1>2. proc[i].copies = 0 \/ Got(plan[i], proc[i]) = Len(plan[i].input)
    BY <1>1, EndOfInputIs
  <1>3. plan[i] \in Tasks /\ proc[i] \in Processes /\ Follows(plan[i], proc[i])
    BY <1>1, AtWorkNow
  <1>4. Put(plan[i], proc[i]) = Len(Told(plan[i]))
    BY ONLY <1>1, <1>2, <1>3, AllPut
  <1> QED
    BY <1>1, <1>4, Leaves

\* Who is killed has lost its reader.
LEMMA WritesAPipe ==
  ASSUME MaxStages \in Nat, NEW plan, WellFormed(plan), StageTypes, Net(plan),
         NEW i \in Stages, WriteToPipe(i)
  PROVE  Net(plan)'
  <1>1. Writing(i) /\ proc[i].out = ThePipe /\ UNCHANGED << files, shown >> /\ proc[i].state = "runs"
    BY DEF WriteToPipe, Writing
  <1>2. CASE Readers(i) = {}
    <2>1. Leave(i, "killed") /\ UNCHANGED pipe
      BY <1>2 DEF WriteToPipe
    <2>2. i \in 1 .. Len(plan) /\ plan[i].out = ThePipe /\ i \in Nat /\ Len(plan) \in Nat
      BY <1>1, AtWorkNow
    <2>3. i < Len(plan) /\ i + 1 \in 1 .. Len(plan) /\ i + 1 \in Stages
      BY <2>2 DEF WellFormed, Stages
    <2>4. ASSUME NEW k \in Stages, k = i + 1, plan[k].in = ThePipe, ~Over(k) PROVE FALSE
      <3>1. k - 1 = i /\ k \in 1 .. Len(plan)
        BY <2>2, <2>3, <2>4
      <3>2. EndsOf(plan, k) \subseteq ends[Holder(k)]
        BY <2>4, <3>1 DEF Net, AtWork, HoldsEnds
      <3>3. << k - 1, "r" >> \in EndsOf(plan, k)
        BY ONLY <2>4 DEF EndsOf
      <3>4. Holder(k) \in DOMAIN ends
        BY <2>3, <2>4 DEF Holder, StageTypes
      <3> QED
        BY <1>2, <3>1, <3>2, <3>3, <3>4 DEF Readers
    <2> QED
      BY <1>1, <2>1, <2>2, <2>3, <2>4, Leaves
  <1>3. CASE Readers(i) # {}
    BY <1>1, <1>3, WritesItem DEF WriteToPipe
  <1> QED
    BY <1>2, <1>3

LEMMA WritesAFile ==
  ASSUME MaxStages \in Nat, NEW plan, WellFormed(plan), StageTypes, Net(plan),
         NEW i \in Stages, WriteToFile(i)
  PROVE  Net(plan)'
  <1>1. Writing(i) /\ proc[i].out.kind \in {"file", "tty"} /\ proc' = Written(i) /\ UNCHANGED << pipe, ends >>
    BY DEF WriteToFile
  <1>2. proc[i].out \in Places
    BY <1>1, OneProcess DEF Writing, Processes
  <1>3. CASE proc[i].out = Tty
    BY <1>1, <1>3, WritesItem DEF WriteToFile
  <1>4. CASE proc[i].out # Tty
    <2>1. proc[i].out.kind = "file"
      BY <1>1, <1>2, <1>4, PlacesDiffer
    <2> QED
      BY <1>1, <1>4, <2>1, WritesItem DEF WriteToFile
  <1> QED
    BY <1>3, <1>4

LEMMA WorkKeepsNet ==
  ASSUME MaxStages \in Nat, NEW plan, WellFormed(plan), StageTypes, Net(plan),
         NEW i \in Stages, Work(i)
  PROVE  Net(plan)'
  BY WritesAPipe, WritesAFile, ReadsAPipe, ReadsAFile, FinishesTask DEF Work

\* Whatever they do, processes stay processes and files hold items.
LEMMA TypesKeep ==
  ASSUME StageTypes, NEW i \in Stages, NEW q \in Processes, proc' = [proc EXCEPT ![i] = q],
         q.in = ThePipe => i - 1 \in DOMAIN pipe, DOMAIN pipe' = DOMAIN pipe, DOMAIN ends' = DOMAIN ends,
         pipe' \in [DOMAIN pipe -> Seq(Items)], files' \in [Names -> Seq(Items)], shown' \in Seq(Items)
  PROVE  StageTypes'
  <1>1. proc' \in [Stages -> Processes \cup {Nothing}]
    BY DEF StageTypes
  <1>2. proc'[i] = q /\ \A k \in Stages : k # i => proc'[k] = proc[k]
    BY Others
  <1>3. ASSUME NEW k \in Stages, proc'[k].state # "none", proc'[k].in = ThePipe PROVE k - 1 \in DOMAIN pipe'
    <2>1. CASE k = i
      BY ONLY <1>2, <1>3, <2>1, q.in = ThePipe => i - 1 \in DOMAIN pipe, DOMAIN pipe' = DOMAIN pipe
    <2>2. CASE k # i
      BY <1>2, <1>3, <2>2 DEF StageTypes
    <2> QED
      BY <2>1, <2>2
  <1> QED
    BY <1>1, <1>3 DEF StageTypes

LEMMA LeaveKeepsTypes ==
  ASSUME StageTypes, NEW i \in Stages, proc[i].state = "runs", NEW how \in {"ended", "killed"},
         Leave(i, how), UNCHANGED << pipe, files, shown >>
  PROVE  StageTypes'
  <1> PICK q : q = [proc[i] EXCEPT !.state = how]
    OBVIOUS
  <1>1. proc[i] \in Processes
    BY OneProcess
  <1>2. q \in Processes /\ q.in = proc[i].in
    BY ONLY <1>1, q = [proc[i] EXCEPT !.state = how], how \in {"ended", "killed"} DEF Processes
  <1>3. proc' = [proc EXCEPT ![i] = q] /\ DOMAIN ends' = DOMAIN ends
    BY DEF Leave, Becomes
  <1>4. pipe' \in [DOMAIN pipe -> Seq(Items)] /\ files' \in [Names -> Seq(Items)] /\ shown' \in Seq(Items)
    BY DEF StageTypes
  <1>5. q.in = ThePipe => i - 1 \in DOMAIN pipe
    BY <1>2 DEF StageTypes
  <1> QED
    BY <1>2, <1>3, <1>4, <1>5, TypesKeep

LEMMA OneMore ==
  ASSUME NEW S, NEW f \in [S -> Seq(Items)], NEW x, NEW item \in Items
  PROVE  [f EXCEPT ![x] = Append(@, item)] \in [S -> Seq(Items)]
  <1> SUFFICES ASSUME NEW y \in S PROVE [f EXCEPT ![x] = Append(@, item)][y] \in Seq(Items)
    OBVIOUS
  <1>1. f[y] \in Seq(Items)
    OBVIOUS
  <1>2. Append(f[y], item) \in Seq(Items)
    BY <1>1
  <1> QED
    BY <1>1, <1>2

LEMMA WriteKeepsTypes ==
  ASSUME StageTypes, NEW i \in Stages, WriteToPipe(i) \/ WriteToFile(i)
  PROVE  StageTypes'
  <1> PICK q : q = [proc[i] EXCEPT !.text = Tail(@)]
    OBVIOUS
  <1> PICK item : item = Head(proc[i].text)
    OBVIOUS
  <1>1. proc[i].state = "runs" /\ proc[i].text # <<>>
    BY DEF WriteToPipe, WriteToFile, Writing
  <1>2. proc[i] \in Processes
    BY <1>1, OneProcess
  <1>3. item \in Items /\ Tail(proc[i].text) \in Seq(Items)
    BY <1>1, <1>2 DEF Processes
  <1>4. q \in Processes /\ q.in = proc[i].in
    BY ONLY <1>2, <1>3, q = [proc[i] EXCEPT !.text = Tail(@)] DEF Processes
  <1>5. q.in = ThePipe => i - 1 \in DOMAIN pipe
    BY <1>1, <1>4 DEF StageTypes
  <1>6. CASE WriteToPipe(i) /\ Readers(i) = {}
    BY <1>1, <1>6, LeaveKeepsTypes DEF WriteToPipe
  <1>7. CASE WriteToPipe(i) /\ Readers(i) # {}
    <2>1. /\ pipe' = [pipe EXCEPT ![i] = Append(@, item)]
          /\ proc' = [proc EXCEPT ![i] = q] /\ UNCHANGED << ends, files, shown >>
      BY <1>7 DEF WriteToPipe, Written
    <2>2. DOMAIN pipe' = DOMAIN pipe /\ pipe' \in [DOMAIN pipe -> Seq(Items)]
      <3>1. pipe \in [DOMAIN pipe -> Seq(Items)]
        BY DEF StageTypes
      <3> QED
        BY ONLY <1>3, <2>1, <3>1, OneMore
    <2>3. files' \in [Names -> Seq(Items)] /\ shown' \in Seq(Items)
      BY <2>1 DEF StageTypes
    <2> QED
      BY <1>4, <1>5, <2>1, <2>2, <2>3, TypesKeep
  <1>8. CASE WriteToFile(i)
    <2>1. proc' = [proc EXCEPT ![i] = q] /\ UNCHANGED << pipe, ends >>
      BY <1>8 DEF WriteToFile, Written
    <2>2. files' \in [Names -> Seq(Items)] /\ shown' \in Seq(Items)
      <3>1. CASE proc[i].out = Tty
        <4>1. shown' = Append(shown, item) /\ files' = files
          BY <1>8, <3>1 DEF WriteToFile
        <4>2. shown \in Seq(Items) /\ files \in [Names -> Seq(Items)]
          BY DEF StageTypes
        <4> QED
          BY ONLY <1>3, <4>1, <4>2
      <3>2. CASE proc[i].out # Tty
        <4>1. files' = [files EXCEPT ![proc[i].out.name] = Append(@, item)] /\ shown' = shown
          BY <1>8, <3>2 DEF WriteToFile
        <4> QED
          <5>1. shown \in Seq(Items) /\ files \in [Names -> Seq(Items)]
            BY DEF StageTypes
          <5> QED
            BY ONLY <1>3, <4>1, <5>1, OneMore
      <3> QED
        BY <3>1, <3>2
    <2>3. pipe' \in [DOMAIN pipe -> Seq(Items)]
      BY <2>1 DEF StageTypes
    <2> QED
      BY <1>4, <1>5, <2>1, <2>2, <2>3, TypesKeep
  <1> QED
    BY <1>6, <1>7, <1>8

LEMMA ReadKeepsTypes ==
  ASSUME StageTypes, NEW i \in Stages, ReadFromPipe(i) \/ ReadFromFile(i)
  PROVE  StageTypes'
  <1> PICK p : p = proc[i]
    OBVIOUS
  <1>1. p.state = "runs" /\ p.copies > 0
    BY DEF ReadFromPipe, ReadFromFile, Reading
  <1>2. p \in Processes
    BY <1>1, OneProcess
  <1>3. CASE ReadFromPipe(i)
    <2> PICK held : held = pipe[i - 1]
      OBVIOUS
    <2> PICK q : q = [p EXCEPT !.text = << Head(held) >>, !.copies = @ - 1]
      OBVIOUS
    <2>1. /\ proc' = [proc EXCEPT ![i] = q] /\ p.in = ThePipe /\ held # <<>>
          /\ pipe' = [pipe EXCEPT ![i - 1] = Tail(held)] /\ UNCHANGED << ends, files, shown >>
      BY <1>3 DEF ReadFromPipe, Becomes, Copied
    <2>2. i - 1 \in DOMAIN pipe /\ held \in Seq(Items)
      BY <1>1, <2>1 DEF StageTypes
    <2>3. Head(held) \in Items /\ Tail(held) \in Seq(Items)
      BY ONLY <2>1, <2>2
    <2>4. q \in Processes
      BY ONLY <1>1, <1>2, <2>3, q = [p EXCEPT !.text = << Head(held) >>, !.copies = @ - 1], CopiedIs, Zenon
    <2>5. DOMAIN pipe' = DOMAIN pipe /\ pipe' \in [DOMAIN pipe -> Seq(Items)]
      BY <2>1, <2>3 DEF StageTypes
    <2>6. files' \in [Names -> Seq(Items)] /\ shown' \in Seq(Items)
      BY <2>1 DEF StageTypes
    <2> QED
      BY <2>1, <2>2, <2>4, <2>5, <2>6, TypesKeep
  <1>4. CASE ReadFromFile(i)
    <2> PICK content : content = files[p.in.name]
      OBVIOUS
    <2> PICK pos : pos = p.in.pos + 1
      OBVIOUS
    <2> PICK h : h = [p EXCEPT !.text = << content[pos] >>, !.copies = @ - 1]
      OBVIOUS
    <2> PICK q : q = [h EXCEPT !.in.pos = pos]
      OBVIOUS
    <2>1. p.in.kind = "file" /\ p.in \in Places
      BY <1>2, <1>4 DEF ReadFromFile, Processes
    <2>2. p.in.name \in Names /\ p.in.pos \in Nat /\ p.in = [kind |-> "file", name |-> p.in.name, pos |-> p.in.pos]
      BY ONLY <2>1 DEF Places, Tty, NoFile, ThePipe
    <2>3. content \in Seq(Items) /\ pos \in Nat \ {0}
      BY <2>2 DEF StageTypes
    <2>4. pos <= Len(content) /\ proc' = [proc EXCEPT ![i] = q] /\ UNCHANGED << pipe, ends, files, shown >>
      <3>1. pos <= Len(content) /\ Becomes(i, [Copied(i, content[pos]) EXCEPT !.in.pos = pos])
            /\ UNCHANGED << pipe, ends, files, shown >>
        BY ONLY <1>4, p = proc[i], content = files[p.in.name], pos = p.in.pos + 1 DEF ReadFromFile
      <3>2. [Copied(i, content[pos]) EXCEPT !.in.pos = pos] = q
        BY ONLY p = proc[i], h = [p EXCEPT !.text = << content[pos] >>, !.copies = @ - 1],
                q = [h EXCEPT !.in.pos = pos], Zenon DEF Copied
      <3> QED
        BY ONLY <3>1, <3>2 DEF Becomes
    <2>5. content[pos] \in Items
      BY ONLY <2>3, <2>4
    <2>6. h \in Processes /\ h.in = p.in
      BY ONLY <1>1, <1>2, <2>5, h = [p EXCEPT !.text = << content[pos] >>, !.copies = @ - 1], CopiedIs, Zenon
    <2>7. q \in Processes /\ q.in.kind = "file"
      <3> PICK r : r = [h.in EXCEPT !.pos = pos]
        OBVIOUS
      <3>1. q = [h EXCEPT !.in = r]
        BY ONLY q = [h EXCEPT !.in.pos = pos], r = [h.in EXCEPT !.pos = pos], <2>6 DEF Processes
      <3>2. r = [kind |-> "file", name |-> p.in.name, pos |-> pos]
        BY ONLY r = [h.in EXCEPT !.pos = pos], <2>2, <2>6
      <3>3. r \in Places
        BY ONLY <2>2, <2>3, <3>2 DEF Places
      <3> QED
        BY ONLY <2>6, <3>1, <3>2, <3>3 DEF Processes
    <2>8. q.in # ThePipe
      BY <2>7 DEF ThePipe
    <2>9. pipe' \in [DOMAIN pipe -> Seq(Items)] /\ files' \in [Names -> Seq(Items)] /\ shown' \in Seq(Items)
      BY <2>4 DEF StageTypes
    <2> QED
      BY <2>4, <2>7, <2>8, <2>9, TypesKeep
  <1> QED
    BY <1>3, <1>4

LEMMA WorkKeepsTypes ==
  ASSUME StageTypes, NEW i \in Stages, Work(i)
  PROVE  StageTypes' /\ DOMAIN pipe' = DOMAIN pipe /\ DOMAIN ends' = DOMAIN ends
  <1>1. StageTypes'
    BY WriteKeepsTypes, ReadKeepsTypes, LeaveKeepsTypes DEF Work, Finish
  <1>2. DOMAIN pipe' = DOMAIN pipe /\ DOMAIN ends' = DOMAIN ends
    BY DEF Work, WriteToPipe, WriteToFile, ReadFromPipe, ReadFromFile, Finish, Leave
  <1> QED
    BY <1>1, <1>2

-----------------------------------------------------------------------------
(***************************************************************************)
(* What the parent does, and what a command does before its program.       *)
(***************************************************************************)

\* A command takes its place: it keeps the ends of its own pipes.
LEMMA SetsUp ==
  ASSUME MaxStages \in Nat, NEW plan, WellFormed(plan), StageTypes, Net(plan),
         NEW i \in Stages, proc[i].state = "forked", NEW q, q = [proc[i] EXCEPT !.state = "runs"],
         proc' = [proc EXCEPT ![i] = q], UNCHANGED << pipe, files, shown >>,
         \A j \in DOMAIN ends : j # i => ends'[j] = ends[j],
         ends[i] \cap EndsOf(plan, i) \subseteq ends'[i]
  PROVE  Net(plan)'
  <1>1. /\ i \in 1 .. Len(plan) /\ proc[i] \in Processes /\ plan[i] \in Tasks /\ AtWork(plan, i)
        /\ Follows(plan[i], proc[i])
    BY AtWorkNow
  <1>2. /\ q.state = "runs" /\ Follows(plan[i], q) /\ Got(plan[i], q) = Got(plan[i], proc[i])
        /\ Put(plan[i], q) = Put(plan[i], proc[i])
    BY ONLY <1>1, q = [proc[i] EXCEPT !.state = "runs"], StateChanges
  <1>3. proc'[i] = q /\ \A k \in Stages : k # i => proc'[k] = proc[k]
    BY Others
  <1>4. PipeKeeps(plan, i)'
    <2>1. Sent(plan, i - 1)' = Sent(plan, i - 1)
      <3>1. i - 1 # 0 => i - 1 \in Stages /\ i - 1 # i
        BY ONLY i \in Stages, MaxStages \in Nat DEF Stages
      <3>2. i - 1 # 0 => proc'[i - 1] = proc[i - 1]
        BY ONLY <1>3, <3>1
      <3> QED
        BY ONLY <3>2 DEF Sent
    <2>2. pipe' = pipe /\ Got(plan[i], proc[i])' = Got(plan[i], proc[i])
      BY <1>2, <1>3
    <2> QED
      BY <1>1, <2>1, <2>2 DEF AtWork, PipeKeeps
  <1>5. EndsOf(plan, i) \subseteq ends'[i]
    BY <1>1 DEF AtWork, HoldsEnds, Holder, Over
  <1> QED
    BY <1>2, <1>4, <1>5, GoesOn

LEMMA SetUpKeepsTypes ==
  ASSUME StageTypes, NEW i \in Stages, proc[i].state = "forked",
         proc' = [proc EXCEPT ![i] = [proc[i] EXCEPT !.state = "runs"]],
         UNCHANGED << pipe, files, shown >>, DOMAIN ends' = DOMAIN ends
  PROVE  StageTypes'
  <1> PICK q : q = [proc[i] EXCEPT !.state = "runs"]
    OBVIOUS
  <1>1. proc[i] \in Processes
    BY OneProcess
  <1>2. q \in Processes /\ q.in = proc[i].in
    BY ONLY <1>1, q = [proc[i] EXCEPT !.state = "runs"] DEF Processes
  <1>4. pipe' \in [DOMAIN pipe -> Seq(Items)] /\ files' \in [Names -> Seq(Items)] /\ shown' \in Seq(Items)
    BY DEF StageTypes
  <1>5. q.in = ThePipe => i - 1 \in DOMAIN pipe
    BY <1>2 DEF StageTypes
  <1> QED
    BY <1>2, <1>4, <1>5, TypesKeep

\* A command is started: what it writes to has been opened.
LEMMA Launches ==
  ASSUME MaxStages \in Nat, NEW plan, WellFormed(plan), StageTypes, Net(plan),
         NEW i \in 1 .. Len(plan), proc[i].state = "none",
         NEW q, q = [state |-> "forked", text |-> plan[i].program.text, copies |-> plan[i].program.copies,
                     code |-> plan[i].program.code, in |-> plan[i].in, out |-> plan[i].out],
         proc' = [proc EXCEPT ![i] = q], UNCHANGED << pipe, shown >>,
         \A f \in Names : files'[f] = files[f] \/ (plan[i].out.kind = "file" /\ plan[i].out.name = f),
         plan[i].out.kind = "file" => files'[plan[i].out.name] = plan[i].base,
         \A j \in DOMAIN ends : j # i /\ j # Parent => ends'[j] = ends[j],
         EndsOf(plan, i) \subseteq ends[Parent] => EndsOf(plan, i) \subseteq ends'[i],
         \A k \in 1 .. Len(plan) : k # i /\ EndsOf(plan, k) \subseteq ends[Parent] => EndsOf(plan, k) \subseteq ends'[Parent]
  PROVE  Net(plan)'
  <1>1. /\ plan[i] \in Tasks /\ i \in Stages /\ i \in Nat /\ Len(plan) \in Nat
        /\ Told(plan[i]) \in Seq(Items) /\ plan[i].base \in Seq(Items)
        /\ plan[i].in \in Places /\ plan[i].out \in Places
    BY OneTask
  <1>2. AtWork(plan, i)
    BY DEF Net
  <1>3. proc'[i] = q /\ \A k \in Stages : k # i => proc'[k] = proc[k]
    BY <1>1, Others
  <1>4. q.state = "forked" /\ Follows(plan[i], q) /\ Got(plan[i], q) = 0 /\ Put(plan[i], q) = 0
    <2>1. plan[i].in.kind = "file" => plan[i].in.pos = 0
      BY DEF WellFormed
    <2> QED
      BY ONLY <1>1, <2>1, Begun, q = [state |-> "forked", text |-> plan[i].program.text, copies |-> plan[i].program.copies,
                     code |-> plan[i].program.code, in |-> plan[i].in, out |-> plan[i].out]
  <1>5. Got(plan[i], proc[i]) = 0 /\ Put(plan[i], proc[i]) = 0
    BY DEF Got, Put
  <1>6. ASSUME NEW k \in 1 .. Len(plan), k # i PROVE AtWork(plan, k)'
    <2>1. PipeKeeps(plan, k)'
      BY <1>1, <1>3, <1>4, <1>5, <1>6, PipesKeep
    <2> QED
      BY <1>3, <1>6, <2>1, NeighboursKeep
  <1>7. AtWork(plan, i)'
    <2>1. PipeKeeps(plan, i)'
      <3>1. Sent(plan, i - 1)' = Sent(plan, i - 1)
        <4>1. i - 1 # 0 => i - 1 \in Stages /\ i - 1 # i
          BY ONLY <1>1, MaxStages \in Nat DEF Stages
        <4>2. i - 1 # 0 => proc'[i - 1] = proc[i - 1]
          BY ONLY <1>3, <4>1
        <4> QED
          BY ONLY <4>2 DEF Sent
      <3>2. pipe' = pipe /\ Got(plan[i], proc[i])' = Got(plan[i], proc[i])
        BY <1>3, <1>4, <1>5
      <3> QED
        BY <1>2, <3>1, <3>2 DEF AtWork, PipeKeeps
    <2>2. SourceStays(plan, i)'
      <3> SUFFICES ASSUME plan[i].in.kind = "file" PROVE files'[plan[i].in.name] = files[plan[i].in.name]
        BY <1>2 DEF SourceStays, AtWork
      <3>1. plan[i].in.name \in Names
        BY <1>1, PlacesDiffer
      <3> QED
        BY <3>1 DEF WellFormed
    <2>3. SinkGrows(plan, i)'
      <3>1. Written1(plan, i)' = plan[i].base
        <4>1. SubSeq(Told(plan[i]), 1, 0) = <<>>
          BY ONLY <1>1, WholePart
        <4>2. plan[i].base \o <<>> = plan[i].base
          BY ONLY <1>1
        <4> QED
          BY <1>3, <1>4, <4>1, <4>2 DEF Written1
      <3>2. plan[i].out = Tty => shown = Written1(plan, i)
        BY <1>2 DEF AtWork, SinkGrows
      <3>3. Written1(plan, i)' = Written1(plan, i)
        BY <1>3, <1>4, <1>5 DEF Written1
      <3> QED
        BY <3>1, <3>2, <3>3 DEF SinkGrows
    <2>4. EndsWell(plan, i)'
      BY <1>3, <1>4 DEF EndsWell
    <2>5. HoldsEnds(plan, i)'
      <3>1. EndsOf(plan, i) \subseteq ends[Parent]
        BY <1>2 DEF AtWork, HoldsEnds, Holder, Over
      <3> QED
        BY <1>3, <1>4, <3>1 DEF HoldsEnds, Holder, EndsOf
    <2> QED
      BY <1>3, <1>4, <2>1, <2>2, <2>3, <2>4, <2>5 DEF AtWork
  <1>8. \A k \in Stages : k > Len(plan) => proc'[k].state = "none"
    BY <1>1, <1>3 DEF Net
  <1> QED
    BY <1>6, <1>7, <1>8 DEF Net

\* The parent closes pipes when all are started; or does something else.
LEMMA ParentCloses ==
  ASSUME MaxStages \in Nat, NEW plan, WellFormed(plan), StageTypes, Net(plan),
         \A i \in 1 .. Len(plan) : proc[i].state # "none" /\ ends'[i] = ends[i],
         UNCHANGED << proc, pipe, files, shown >>
  PROVE  Net(plan)'
  <1>1. ASSUME NEW i \in 1 .. Len(plan) PROVE AtWork(plan, i)'
    <2>1. AtWork(plan, i)
      BY DEF Net
    <2>2. HoldsEnds(plan, i)'
      BY <2>1 DEF AtWork, HoldsEnds, Holder, Over, EndsOf
    <2> QED
      BY <2>1, <2>2 DEF AtWork, PipeKeeps, Sent, SourceStays, SinkGrows, Written1, EndsWell, Over
  <1> QED
    BY <1>1 DEF Net

LEMMA NetStays ==
  ASSUME NEW plan, Net(plan), UNCHANGED stageVars
  PROVE  Net(plan)'
  BY DEF stageVars, Net, AtWork, PipeKeeps, Sent, SourceStays, SinkGrows, Written1, EndsWell, Over, HoldsEnds, Holder

\* All is over: who writes to a file or to the terminal has written everything.
LEMMA AllIsTold ==
  ASSUME MaxStages \in Nat, NEW plan, WellFormed(plan), StageTypes, Net(plan),
         NEW i \in 1 .. Len(plan), Over(i), plan[i].out # ThePipe
  PROVE  /\ proc[i].state = "ended"
         /\ plan[i].out.kind = "file" => files[plan[i].out.name] = plan[i].base \o Told(plan[i])
         /\ plan[i].out = Tty => shown = plan[i].base \o Told(plan[i])
  <1>1. AtWork(plan, i) /\ Told(plan[i]) \in Seq(Items)
    BY OneTask DEF Net
  <1>2. proc[i].state = "ended"
    BY <1>1 DEF AtWork, EndsWell, Over
  <1>3. Put(plan[i], proc[i]) = Len(Told(plan[i]))
    BY <1>1, <1>2 DEF AtWork, EndsWell
  <1>4. Written1(plan, i) = plan[i].base \o Told(plan[i])
    BY <1>1, <1>3, WholePart DEF Written1
  <1> QED
    BY <1>1, <1>2, <1>4 DEF AtWork, SinkGrows

-----------------------------------------------------------------------------
(***************************************************************************)
(* Induction over a sequence, by its least counterexample: the library's   *)
(* theorem about well-founded orders has no operator for a parameter.      *)
(***************************************************************************)
LEMMA Least ==
  ASSUME NEW T, T \subseteq Nat, T # {}
  PROVE  \E m \in T : \A k \in T : m <= k
  <1> DEFINE Sub == {0 .. k : k \in T}
  <1>1. Sub \subseteq FiniteSubsetsOf(Nat)
    <2>1. \A k \in T : IsFiniteSet(0 .. k)
      BY FS_Interval
    <2> QED
      BY <2>1 DEF FiniteSubsetsOf
  <1>2. Sub # {}
    OBVIOUS
  <1>3. PICK x \in Sub : \A y \in Sub : ~(<< y, x >> \in StrictSubsetOrdering(Nat))
    <2>1. IsWellFoundedOn(StrictSubsetOrdering(Nat), FiniteSubsetsOf(Nat))
      BY FS_StrictSubsetOrderingWellFounded
    <2> HIDE DEF Sub
    <2> QED
      BY <1>1, <1>2, <2>1, WFMin
  <1>4. PICK m \in T : x = 0 .. m
    OBVIOUS
  <1>5. ASSUME NEW k \in T, k < m PROVE FALSE
    <2>1. 0 .. k \in Sub /\ k \in Nat /\ m \in Nat
      OBVIOUS
    <2>2. 0 .. k \subseteq 0 .. m /\ 0 .. k # 0 .. m
      BY <1>5, <2>1
    <2>3. << 0 .. k, 0 .. m >> \in StrictSubsetOrdering(Nat)
      BY <2>1, <2>2 DEF StrictSubsetOrdering
    <2> QED
      BY <1>3, <1>4, <2>1, <2>3
  <1>6. \A k \in T : m <= k
    BY <1>5
  <1> QED
    BY <1>6

LEMMA OneAfterAnother ==
  ASSUME NEW n \in Nat, NEW S, 0 \in S, \A i \in 1 .. n : i - 1 \in S => i \in S
  PROVE  0 .. n \subseteq S
  <1> DEFINE T == {i \in 0 .. n : i \notin S}
  <1> SUFFICES ASSUME T # {} PROVE FALSE
    OBVIOUS
  <1>1. PICK m \in T : \A k \in T : m <= k
    <2>1. T \subseteq Nat
      OBVIOUS
    <2> HIDE DEF T
    <2> QED
      BY <2>1, Least
  <1>2. m \in 1 .. n /\ m - 1 \in 0 .. n
    OBVIOUS
  <1>3. m - 1 \notin T
    BY <1>1, <1>2
  <1> QED
    BY <1>2, <1>3

StepsOver(S, n) == [1 .. n -> [S -> S]]
Iterated(g, n, base, runs) == g[0] = base /\ \A i \in 1 .. n : g[i] = runs[i][g[i - 1]]

\* A recursive function over an interval of the numbers is there.
LEMMA Iterates ==
  ASSUME NEW n \in Nat, NEW S, NEW base \in S, NEW runs \in StepsOver(S, n)
  PROVE  \E g \in [0 .. n -> S] : Iterated(g, n, base, runs)
  <1>0. runs \in [1 .. n -> [S -> S]]
    BY DEF StepsOver
  <1> DEFINE Is(g, m) == g[0] = base /\ \A i \in 1 .. m : g[i] = runs[i][g[i - 1]]
             G == {m \in 0 .. n : \E g \in [0 .. m -> S] : Is(g, m)}
  <1>1. 0 \in G
    <2>1. [i \in 0 .. 0 |-> base] \in [0 .. 0 -> S] /\ Is([i \in 0 .. 0 |-> base], 0)
      OBVIOUS
    <2> HIDE DEF Is
    <2> QED
      BY <2>1
  <1>2. ASSUME NEW m \in 1 .. n, m - 1 \in G PROVE m \in G
    <2>1. PICK g \in [0 .. m - 1 -> S] : Is(g, m - 1)
      BY <1>2
    <2> PICK h : h = [i \in 0 .. m |-> IF i = m THEN runs[m][g[m - 1]] ELSE g[i]]
      OBVIOUS
    <2>2. g[m - 1] \in S /\ runs[m][g[m - 1]] \in S
      BY <1>0
    <2>3. h \in [0 .. m -> S]
      BY <2>2
    <2>4. h[0] = base
      BY <2>1
    <2>5. ASSUME NEW i \in 1 .. m PROVE h[i] = runs[i][h[i - 1]]
      <3>1. h[i - 1] = g[i - 1] /\ i - 1 \in 0 .. m - 1
        OBVIOUS
      <3>2. CASE i = m
        BY <3>1, <3>2
      <3>3. CASE i # m
        <4>1. i \in 1 .. m - 1
          BY <3>3
        <4>2. g[i] = runs[i][g[i - 1]]
          BY <2>1, <4>1
        <4>3. h[i] = g[i]
          BY <4>1
        <4> QED
          BY <3>1, <4>2, <4>3
      <3> QED
        BY <3>2, <3>3
    <2>6. Is(h, m)
      BY <2>4, <2>5
    <2> HIDE DEF Is
    <2> QED
      BY <2>3, <2>6
  <1>3. n \in G
    <2> HIDE DEF G
    <2>1. 0 .. n \subseteq G
      BY <1>1, <1>2, OneAfterAnother
    <2> QED
      BY <2>1
  <1> QED
    BY <1>3 DEF Iterated

-----------------------------------------------------------------------------
(***************************************************************************)
(* What a line of minishell means, and the tasks of its commands.          *)
(***************************************************************************)
Meanings == [files : [Names -> Seq(Items)], flow : Seq(Items)]
Befores == [files : [Names -> Seq(Items)], shown : Seq(Items)]

InputIn(s, c) == IF c.in # NoFile THEN s.files[c.in.name] ELSE s.flow
BaseIn(fs, c) == IF fs[c.out.name] = Absent \/ ~c.append THEN <<>> ELSE fs[c.out.name]

LEMMA CommandIs ==
  ASSUME NEW c \in Commands
  PROVE  /\ c.program \in Programs /\ c.append \in BOOLEAN
         /\ c.in # NoFile => c.in.name \in Names /\ c.in.kind = "file" /\ c.in.pos = 0 /\ c.in = File(c.in.name)
         /\ c.out # NoFile => c.out.name \in Names /\ c.out.kind = "file" /\ c.out.pos = 0 /\ c.out = File(c.out.name)
         /\ c.in \in Places /\ c.out \in Places
  BY DEF Commands, Redirections, File, NoFile, Places

LEMMA Run1Is ==
  ASSUME NEW s \in Meanings, NEW c \in Commands
  PROVE  /\ Run1(s, c) \in Meanings
         /\ InputIn(s, c) \in Seq(Items)
         /\ Output(c.program, InputIn(s, c)) \in Seq(Items)
         /\ c.out = NoFile => Run1(s, c).files = s.files /\ Run1(s, c).flow = Output(c.program, InputIn(s, c))
         /\ c.out # NoFile =>
              /\ Run1(s, c).flow = <<>>
              /\ Run1(s, c).files[c.out.name] = BaseIn(s.files, c) \o Output(c.program, InputIn(s, c))
              /\ \A f \in Names : f # c.out.name => Run1(s, c).files[f] = s.files[f]
  <1> PICK output : output = Output(c.program, InputIn(s, c))
    OBVIOUS
  <1> PICK input : input = InputIn(s, c)
    OBVIOUS
  <1>1. input \in Seq(Items) /\ c.program \in Programs /\ (c.out # NoFile => c.out.name \in Names)
    BY CommandIs DEF InputIn, Meanings
  <1>2. output \in Seq(Items)
    BY <1>1, OutputIs
  <1>3. CASE c.out = NoFile
    <2>1. Run1(s, c) = [s EXCEPT !.flow = output]
      BY <1>3 DEF Run1, InputIn
    <2> QED
      BY <1>1, <1>2, <1>3, <2>1 DEF Meanings
  <1>4. CASE c.out # NoFile
    <2> PICK name : name = c.out.name
      OBVIOUS
    <2> PICK new : new = IF s.files[name] = Absent \/ ~c.append THEN output ELSE s.files[name] \o output
      OBVIOUS
    <2> PICK fs : fs = [s.files EXCEPT ![name] = new]
      OBVIOUS
    <2>1. Run1(s, c) = [s EXCEPT !.flow = <<>>, !.files[name] = new]
      BY <1>4 DEF Run1, InputIn, Meanings
    <2>2. Run1(s, c) = [files |-> fs, flow |-> <<>>]
      BY <2>1 DEF Meanings
    <2>3. name \in Names /\ s.files \in [Names -> Seq(Items)] /\ s.files[name] \in Seq(Items)
      BY <1>1, <1>4 DEF Meanings
    <2>4. new = BaseIn(s.files, c) \o output /\ new \in Seq(Items)
      <3>1. <<>> \o output = output /\ s.files[name] \o output \in Seq(Items)
        BY ONLY <1>2, <2>3
      <3> QED
        BY <1>2, <3>1 DEF BaseIn
    <2>5. fs \in [Names -> Seq(Items)] /\ fs[name] = new /\ \A f \in Names : f # name => fs[f] = s.files[f]
      BY ONLY <2>3, <2>4, fs = [s.files EXCEPT ![name] = new]
    <2>6. Run1(s, c) \in Meanings
      BY ONLY <2>2, <2>5 DEF Meanings
    <2>7. Run1(s, c).flow = <<>> /\ Run1(s, c).files = fs
      BY ONLY <2>2
    <2>8. /\ Run1(s, c).files[c.out.name] = BaseIn(s.files, c) \o Output(c.program, InputIn(s, c))
          /\ \A f \in Names : f # c.out.name => Run1(s, c).files[f] = s.files[f]
      BY ONLY <2>4, <2>5, <2>7, name = c.out.name, output = Output(c.program, InputIn(s, c))
    <2> QED
      BY <1>1, <1>2, <1>4, <2>6, <2>7, <2>8
  <1> QED
    BY <1>3, <1>4

LEMMA AfterIs ==
  ASSUME NEW cmds \in CommandLines, NEW from \in Befores
  PROVE  /\ After(cmds, from) \in [0 .. Len(cmds) -> Meanings]
         /\ After(cmds, from)[0] = [files |-> from.files, flow |-> <<>>]
         /\ \A i \in 1 .. Len(cmds) : After(cmds, from)[i] = Run1(After(cmds, from)[i - 1], cmds[i])
  <1> DEFINE start == [files |-> from.files, flow |-> <<>>]
             Steps(f) == [i \in 0 .. Len(cmds) |-> IF i = 0 THEN start ELSE Run1(f[i - 1], cmds[i])]
  <1> PICK n : n = Len(cmds)
    OBVIOUS
  <1>1. n \in Nat /\ \A i \in 1 .. n : cmds[i] \in Commands
    BY DEF CommandLines
  <1>2. start \in Meanings
    BY DEF Befores, Meanings
  <1>3. \E f : f = Steps(f)
    <2> PICK runs : runs = [i \in 1 .. n |-> [s \in Meanings |-> Run1(s, cmds[i])]]
      OBVIOUS
    <2>1. runs \in [1 .. n -> [Meanings -> Meanings]]
      BY <1>1, Run1Is
    <2>2. PICK g \in [0 .. n -> Meanings] : g[0] = start /\ \A i \in 1 .. n : g[i] = runs[i][g[i - 1]]
      <3> HIDE DEF start
      <3>1. n \in Nat /\ start \in Meanings
        BY ONLY <1>1, <1>2
      <3>2. runs \in StepsOver(Meanings, n)
        BY ONLY <2>1 DEF StepsOver
      <3>3. \E g \in [0 .. n -> Meanings] : Iterated(g, n, start, runs)
        BY ONLY <3>1, <3>2, Iterates
      <3> QED
        BY ONLY <3>3 DEF Iterated
    <2>3. ASSUME NEW i \in 0 .. n PROVE g[i] = IF i = 0 THEN start ELSE Run1(g[i - 1], cmds[i])
      <3>1. CASE i = 0
        BY <2>2, <3>1
      <3>2. CASE i # 0
        <4>1. i \in 1 .. n /\ i - 1 \in 0 .. n
          BY <1>1, <3>2
        <4>2. g[i - 1] \in Meanings
          BY <4>1
        <4> QED
          BY <2>2, <3>2, <4>1, <4>2
      <3> QED
        BY <3>1, <3>2
    <2>4. g = [i \in 0 .. n |-> g[i]]
      OBVIOUS
    <2>5. g = Steps(g)
      BY <2>3, <2>4
    <2> HIDE DEF Steps
    <2> QED
      BY <2>5
  <1> PICK a : a = After(cmds, from)
    OBVIOUS
  <1>4. a = Steps(a)
    <2>1. a = CHOOSE f : f = Steps(f)
      BY Zenon DEF After
    <2> HIDE DEF Steps
    <2> QED
      BY <1>3, <2>1
  <1>5. DOMAIN a = 0 .. n /\ a[0] = start /\ \A i \in 1 .. n : a[i] = Run1(a[i - 1], cmds[i])
    BY <1>1, <1>4
  <1>6. a \in [0 .. n -> Meanings]
    <2> PICK S : S = {i \in 0 .. n : a[i] \in Meanings}
      OBVIOUS
    <2>1. 0 \in S
      BY <1>1, <1>2, <1>5
    <2>2. ASSUME NEW i \in 1 .. n, i - 1 \in S PROVE i \in S
      <3>1. Run1(a[i - 1], cmds[i]) \in Meanings
        BY <1>1, <2>2, Run1Is
      <3> QED
        BY <1>1, <1>5, <3>1
    <2>3. 0 .. n \subseteq S
      BY ONLY <1>1, <2>1, <2>2, OneAfterAnother
    <2>4. a = [i \in 0 .. n |-> a[i]]
      BY <1>4
    <2> QED
      BY <2>3, <2>4
  <1> QED
    BY <1>5, <1>6

PlanOf(cmds, from) ==
  [i \in 1 .. Len(cmds) |->
     [program |-> cmds[i].program,
      in |-> IF cmds[i].in # NoFile THEN cmds[i].in ELSE IF i > 1 THEN ThePipe ELSE Tty,
      out |-> IF cmds[i].out # NoFile THEN cmds[i].out ELSE IF i < Len(cmds) THEN ThePipe ELSE Tty,
      input |-> IF cmds[i].in # NoFile THEN from.files[cmds[i].in.name] ELSE After(cmds, from)[i - 1].flow,
      base |-> IF cmds[i].out # NoFile THEN BaseIn(from.files, cmds[i]) ELSE from.shown]]

LEMMA FilesApart ==
  ASSUME NEW cmds \in CommandLines, NoSharedFiles(cmds),
         NEW i \in 1 .. Len(cmds), NEW j \in 1 .. Len(cmds), cmds[i].out # NoFile
  PROVE  /\ cmds[j].in # NoFile => cmds[j].in.name # cmds[i].out.name
         /\ j # i /\ cmds[j].out # NoFile => cmds[j].out.name # cmds[i].out.name
  <1>1. DOMAIN cmds = 1 .. Len(cmds)
    BY DEF CommandLines
  <1>2. << i, "out" >> \in Uses(cmds)
    BY <1>1 DEF Uses
  <1>3. ASSUME cmds[j].in # NoFile PROVE cmds[j].in.name # cmds[i].out.name
    <2>1. << j, "in" >> \in Uses(cmds)
      BY <1>1, <1>3 DEF Uses
    <2> QED
      BY <1>2, <2>1 DEF NoSharedFiles
  <1>4. ASSUME j # i, cmds[j].out # NoFile PROVE cmds[j].out.name # cmds[i].out.name
    <2>1. << j, "out" >> \in Uses(cmds)
      BY <1>1, <1>4 DEF Uses
    <2> QED
      BY <1>2, <1>4, <2>1 DEF NoSharedFiles
  <1> QED
    BY <1>3, <1>4

LEMMA PlanIs ==
  ASSUME NEW cmds \in CommandLines, NEW from \in Befores, NEW i \in 1 .. Len(cmds)
  PROVE  /\ Len(PlanOf(cmds, from)) = Len(cmds) /\ PlanOf(cmds, from)[i] \in Tasks
         /\ PlanOf(cmds, from)[i].program = cmds[i].program
         /\ PlanOf(cmds, from)[i].in = IF cmds[i].in # NoFile THEN cmds[i].in ELSE IF i > 1 THEN ThePipe ELSE Tty
         /\ PlanOf(cmds, from)[i].out = IF cmds[i].out # NoFile THEN cmds[i].out ELSE IF i < Len(cmds) THEN ThePipe ELSE Tty
         /\ PlanOf(cmds, from)[i].input =
              IF cmds[i].in # NoFile THEN from.files[cmds[i].in.name] ELSE After(cmds, from)[i - 1].flow
         /\ PlanOf(cmds, from)[i].base = IF cmds[i].out # NoFile THEN BaseIn(from.files, cmds[i]) ELSE from.shown
  <1>1. Len(cmds) \in Nat /\ cmds[i] \in Commands /\ i \in Nat /\ i - 1 \in 0 .. Len(cmds)
    BY DEF CommandLines
  <1> PICK t : t = PlanOf(cmds, from)[i]
    OBVIOUS
  <1>2. Len(PlanOf(cmds, from)) = Len(cmds)
    BY <1>1 DEF PlanOf
  <1>3. /\ t = [program |-> t.program, in |-> t.in, out |-> t.out, input |-> t.input, base |-> t.base]
        /\ t.program = cmds[i].program
        /\ t.in = IF cmds[i].in # NoFile THEN cmds[i].in ELSE IF i > 1 THEN ThePipe ELSE Tty
        /\ t.out = IF cmds[i].out # NoFile THEN cmds[i].out ELSE IF i < Len(cmds) THEN ThePipe ELSE Tty
        /\ t.input = IF cmds[i].in # NoFile THEN from.files[cmds[i].in.name] ELSE After(cmds, from)[i - 1].flow
        /\ t.base = IF cmds[i].out # NoFile THEN BaseIn(from.files, cmds[i]) ELSE from.shown
    BY DEF PlanOf
  <1>4. t.program \in Programs /\ t.in \in Places /\ t.out \in Places
    BY ONLY <1>1, <1>3, CommandIs DEF Places
  <1>5. t.input \in Seq(Items)
    <2>1. After(cmds, from)[i - 1] \in Meanings
      BY <1>1, AfterIs
    <2>2. cmds[i].in # NoFile => cmds[i].in.name \in Names
      BY <1>1, CommandIs
    <2> QED
      BY <1>3, <2>1, <2>2 DEF Meanings, Befores
  <1>6. t.base \in Seq(Items)
    <2>1. cmds[i].out # NoFile => cmds[i].out.name \in Names
      BY <1>1, CommandIs
    <2> QED
      BY <1>3, <2>1 DEF Befores, BaseIn
  <1>7. t \in Tasks
    BY ONLY <1>3, <1>4, <1>5, <1>6 DEF Tasks
  <1> QED
    BY ONLY <1>2, <1>3, <1>7, t = PlanOf(cmds, from)[i]

\* After the first i commands: their files hold what they have told, the others what
\* they held before.
AfterParts(cmds, from, i) ==
  /\ \A f \in Names : (\A j \in 1 .. i : cmds[j].out # NoFile => cmds[j].out.name # f) =>
       After(cmds, from)[i].files[f] = from.files[f]
  /\ \A j \in 1 .. i : cmds[j].out # NoFile =>
       After(cmds, from)[i].files[cmds[j].out.name] = PlanOf(cmds, from)[j].base \o Told(PlanOf(cmds, from)[j])
  /\ i > 0 => After(cmds, from)[i].flow = IF cmds[i].out # NoFile THEN <<>> ELSE Told(PlanOf(cmds, from)[i])

LEMMA AfterOne ==
  ASSUME NEW cmds \in CommandLines, NEW from \in Befores, NoSharedFiles(cmds), NEW i \in 1 .. Len(cmds),
         AfterParts(cmds, from, i - 1)
  PROVE  AfterParts(cmds, from, i)
  <1> PICK s : s = After(cmds, from)[i - 1]
    OBVIOUS
  <1> PICK r : r = After(cmds, from)[i]
    OBVIOUS
  <1> PICK c : c = cmds[i]
    OBVIOUS
  <1> PICK t : t = PlanOf(cmds, from)[i]
    OBVIOUS
  <1>1. Len(cmds) \in Nat /\ c \in Commands /\ i \in Nat /\ i > 0 /\ i - 1 \in 0 .. Len(cmds)
        /\ 1 .. i - 1 \subseteq 1 .. Len(cmds) /\ 1 .. i = 1 .. i - 1 \cup {i}
    BY DEF CommandLines
  <1>2. s \in Meanings /\ r = Run1(s, c)
    BY <1>1, AfterIs
  <1>3. InputIn(s, c) = t.input /\ t.program = c.program
    <2>1. t.program = c.program /\ t.input = IF c.in # NoFile THEN from.files[c.in.name] ELSE s.flow
      BY PlanIs
    <2>2. ASSUME c.in # NoFile PROVE s.files[c.in.name] = from.files[c.in.name]
      <3>1. c.in.name \in Names
        BY <1>1, <2>2, CommandIs
      <3>2. ASSUME NEW j \in 1 .. i - 1, cmds[j].out # NoFile PROVE cmds[j].out.name # c.in.name
        <4>1. j \in 1 .. Len(cmds)
          BY <1>1
        <4> QED
          BY <2>2, <3>2, <4>1, FilesApart
      <3> QED
        BY <3>1, <3>2 DEF AfterParts
    <2> QED
      BY <2>1, <2>2 DEF InputIn
  <1>4. Output(c.program, InputIn(s, c)) = Told(t)
    BY <1>3 DEF Told
  <1>5. CASE c.out = NoFile
    <2>1. r.files = s.files /\ r.flow = Told(t)
      BY ONLY <1>1, <1>2, <1>4, <1>5, Run1Is
    <2>2. ASSUME NEW f \in Names, \A j \in 1 .. i : cmds[j].out # NoFile => cmds[j].out.name # f
          PROVE  r.files[f] = from.files[f]
      BY <1>1, <2>1, <2>2 DEF AfterParts
    <2>3. ASSUME NEW j \in 1 .. i, cmds[j].out # NoFile
          PROVE  r.files[cmds[j].out.name] = PlanOf(cmds, from)[j].base \o Told(PlanOf(cmds, from)[j])
      <3>1. j \in 1 .. i - 1
        BY <1>1, <1>5, <2>3
      <3> QED
        BY <2>1, <2>3, <3>1 DEF AfterParts
    <2> QED
      BY <1>5, <2>1, <2>2, <2>3 DEF AfterParts
  <1>6. CASE c.out # NoFile
    <2>1. /\ r.flow = <<>> /\ r.files[c.out.name] = BaseIn(s.files, c) \o Told(t)
          /\ \A f \in Names : f # c.out.name => r.files[f] = s.files[f]
      BY ONLY <1>1, <1>2, <1>4, <1>6, Run1Is
    <2>2. BaseIn(s.files, c) = t.base
      <3>1. t.base = BaseIn(from.files, c)
        BY <1>6, PlanIs
      <3>2. s.files[c.out.name] = from.files[c.out.name]
        <4>1. c.out.name \in Names
          BY <1>1, <1>6, CommandIs
        <4>2. ASSUME NEW j \in 1 .. i - 1, cmds[j].out # NoFile PROVE cmds[j].out.name # c.out.name
          <5>1. j \in 1 .. Len(cmds) /\ j # i
            BY <1>1
          <5> QED
            BY <1>6, <4>2, <5>1, FilesApart
        <4> QED
          BY <4>1, <4>2 DEF AfterParts
      <3> QED
        BY <3>1, <3>2 DEF BaseIn
    <2>3. ASSUME NEW f \in Names, \A j \in 1 .. i : cmds[j].out # NoFile => cmds[j].out.name # f
          PROVE  r.files[f] = from.files[f]
      <3>1. f # c.out.name
        BY <1>1, <1>6, <2>3
      <3>2. \A j \in 1 .. i - 1 : cmds[j].out # NoFile => cmds[j].out.name # f
        BY <1>1, <2>3
      <3>3. s.files[f] = from.files[f]
        BY <3>2 DEF AfterParts
      <3> QED
        BY <2>1, <3>1, <3>3
    <2>4. ASSUME NEW j \in 1 .. i, cmds[j].out # NoFile
          PROVE  r.files[cmds[j].out.name] = PlanOf(cmds, from)[j].base \o Told(PlanOf(cmds, from)[j])
      <3>1. CASE j = i
        BY <2>1, <2>2, <3>1
      <3>2. CASE j # i
        <4>1. j \in 1 .. i - 1 /\ j \in 1 .. Len(cmds)
          BY <1>1, <3>2
        <4>2. cmds[j].out.name # c.out.name /\ cmds[j].out.name \in Names
          <5>1. cmds[j] \in Commands
            BY <4>1 DEF CommandLines
          <5> QED
            BY <1>6, <2>4, <3>2, <4>1, <5>1, FilesApart, CommandIs
        <4>3. s.files[cmds[j].out.name] = PlanOf(cmds, from)[j].base \o Told(PlanOf(cmds, from)[j])
          BY <2>4, <4>1 DEF AfterParts
        <4> QED
          BY <2>1, <4>2, <4>3
      <3> QED
        BY <3>1, <3>2
    <2> QED
      BY <1>6, <2>1, <2>3, <2>4 DEF AfterParts
  <1> QED
    BY <1>5, <1>6

LEMMA AfterAll ==
  ASSUME NEW cmds \in CommandLines, NEW from \in Befores, NoSharedFiles(cmds), NEW i \in 0 .. Len(cmds)
  PROVE  AfterParts(cmds, from, i)
  <1> PICK n : n = Len(cmds)
    OBVIOUS
  <1> PICK S : S = {k \in 0 .. n : AfterParts(cmds, from, k)}
    OBVIOUS
  <1>1. n \in Nat
    BY DEF CommandLines
  <1>2. 0 \in S
    <2>1. After(cmds, from)[0].files = from.files
      <3>1. After(cmds, from)[0] = [files |-> from.files, flow |-> <<>>]
        BY AfterIs
      <3> QED
        BY ONLY <3>1
    <2>2. AfterParts(cmds, from, 0)
      BY ONLY <2>1 DEF AfterParts
    <2> QED
      BY <1>1, <2>2
  <1>3. ASSUME NEW k \in 1 .. n, k - 1 \in S PROVE k \in S
    BY <1>1, <1>3, AfterOne
  <1>4. 0 .. n \subseteq S
    BY ONLY <1>1, <1>2, <1>3, OneAfterAnother
  <1> QED
    BY <1>4

LEMMA PlanIsWellFormed ==
  ASSUME NEW cmds \in CommandLines, NEW from \in Befores, NoSharedFiles(cmds)
  PROVE  WellFormed(PlanOf(cmds, from))
  <1> PICK n : n = Len(cmds)
    OBVIOUS
  <1> PICK plan : plan = PlanOf(cmds, from)
    OBVIOUS
  <1>1. n \in 1 .. MaxStages /\ n \in Nat /\ Len(plan) = n /\ \A i \in 1 .. n : cmds[i] \in Commands
    <2>1. n \in 1 .. MaxStages /\ n \in Nat /\ \A i \in 1 .. n : cmds[i] \in Commands
      BY DEF CommandLines
    <2> QED
      BY <2>1, PlanIs
  <1>2. plan \in Seq(Tasks)
    <2>1. plan = [i \in 1 .. n |-> plan[i]]
      BY DEF PlanOf
    <2>2. \A i \in 1 .. n : plan[i] \in Tasks
      BY PlanIs
    <2> QED
      BY ONLY <1>1, <2>1, <2>2
  <1>3. ASSUME NEW i \in 1 .. n
        PROVE  /\ plan[i].in # NoFile /\ plan[i].out # NoFile
               /\ plan[i].in.kind = "file" => plan[i].in.pos = 0 /\ cmds[i].in # NoFile /\ plan[i].in = cmds[i].in
               /\ plan[i].out.kind = "file" => cmds[i].out # NoFile /\ plan[i].out = cmds[i].out
               /\ plan[i].out = ThePipe => i < n /\ cmds[i].out = NoFile
               /\ plan[i].out = Tty => i = n /\ cmds[i].out = NoFile
               /\ plan[i].in = Tty => i = 1 /\ cmds[i].in = NoFile
               /\ plan[i].in = ThePipe => i > 1 /\ cmds[i].in = NoFile
    <2>1. /\ plan[i].in = IF cmds[i].in # NoFile THEN cmds[i].in ELSE IF i > 1 THEN ThePipe ELSE Tty
          /\ plan[i].out = IF cmds[i].out # NoFile THEN cmds[i].out ELSE IF i < n THEN ThePipe ELSE Tty
      BY PlanIs
    <2>2. /\ cmds[i].in # NoFile => cmds[i].in.kind = "file" /\ cmds[i].in.pos = 0
          /\ cmds[i].out # NoFile => cmds[i].out.kind = "file"
      BY <1>1, CommandIs
    <2> QED
      BY <1>1, <2>1, <2>2 DEF Tty, ThePipe, NoFile
  <1>4. ASSUME NEW i \in 1 .. n, plan[i].in = Tty PROVE plan[i].input = <<>>
    <2>1. i = 1 /\ cmds[i].in = NoFile
      BY <1>3, <1>4
    <2>2. plan[i].input = After(cmds, from)[i - 1].flow
      BY <2>1, PlanIs
    <2>3. After(cmds, from)[0] = [files |-> from.files, flow |-> <<>>]
      BY AfterIs
    <2>4. i - 1 = 0
      BY <2>1
    <2> QED
      BY ONLY <2>2, <2>3, <2>4
  <1>5. ASSUME NEW i \in 1 .. n, plan[i].in = ThePipe, i > 1
        PROVE  plan[i].input = IF plan[i - 1].out = ThePipe THEN Told(plan[i - 1]) ELSE <<>>
    <2>1. i - 1 \in 1 .. n /\ i - 1 \in 0 .. n /\ i - 1 < n
      BY <1>1, <1>5
    <2>2. plan[i].input = After(cmds, from)[i - 1].flow
      BY <1>3, <1>5, PlanIs
    <2>3. After(cmds, from)[i - 1].flow = IF cmds[i - 1].out # NoFile THEN <<>> ELSE Told(plan[i - 1])
      <3> PICK k : k = i - 1
        OBVIOUS
      <3>1. k \in 0 .. n /\ k > 0
        BY <1>1, <1>5
      <3>2. AfterParts(cmds, from, k)
        BY <3>1, AfterAll
      <3>3. After(cmds, from)[k].flow = IF cmds[k].out # NoFile THEN <<>> ELSE Told(PlanOf(cmds, from)[k])
        BY ONLY <3>1, <3>2 DEF AfterParts
      <3> QED
        BY ONLY <3>3, k = i - 1, plan = PlanOf(cmds, from)
    <2>4. plan[i - 1].out = ThePipe <=> cmds[i - 1].out = NoFile
      <3>1. plan[i - 1].out = IF cmds[i - 1].out # NoFile THEN cmds[i - 1].out ELSE IF i - 1 < n THEN ThePipe ELSE Tty
        BY <2>1, PlanIs
      <3> QED
        BY <1>3, <2>1, <3>1
    <2> QED
      BY <2>2, <2>3, <2>4
  <1>6. ASSUME NEW i \in 1 .. n, NEW j \in 1 .. n, plan[i].out.kind = "file"
        PROVE  /\ plan[j].in.kind = "file" => plan[j].in.name # plan[i].out.name
               /\ j # i /\ plan[j].out.kind = "file" => plan[j].out.name # plan[i].out.name
    BY <1>3, <1>6, FilesApart
  <1> QED
    BY <1>1, <1>2, <1>3, <1>4, <1>5, <1>6 DEF WellFormed

-----------------------------------------------------------------------------
(***************************************************************************)
(* minishell: its line is on the way to what it means, and at the prompt   *)
(* it is there.                                                            *)
(***************************************************************************)
ScriptLines == {Exit, BadLine} \cup CommandLines

ShellTypes ==
  /\ StageTypes
  /\ script \in Seq(ScriptLines) /\ line \in CommandLines \cup {<<>>} /\ before \in Befores
  /\ pc \in {"prompt", "starting", "waiting", "left", "failed", "crashed"}
  /\ pc \in {"starting", "waiting"} => line \in CommandLines

\* What nobody has opened is as it was.
Untouched(plan, from) ==
  /\ \A f \in Names :
       (\A i \in 1 .. Len(plan) : plan[i].out.kind = "file" /\ plan[i].out.name = f => proc[i].state = "none") =>
         files[f] = from.files[f]
  /\ (\A i \in 1 .. Len(plan) : plan[i].out # Tty) => shown = from.shown

OnTheWay ==
  \A plan, from : from = before /\ plan = PlanOf(line, from) => Net(plan) /\ Untouched(plan, from)

Begins == /\ at \in 1 .. Len(line) + 1
          /\ \A i \in Stages : proc[i].state = "none" <=> i >= at
Goes == /\ at \in 1 .. Len(line)
        /\ \A i \in Stages : proc[i].state = "none" <=> i > Len(line)
        /\ \A i \in Stages : i < at => Over(i)

ShellInv ==
  /\ ShellTypes
  /\ pc = "starting" => Begins
  /\ pc = "waiting" => Goes
  /\ pc \in {"starting", "waiting"} /\ NoSharedFiles(line) => OnTheWay
  /\ pc = "prompt" => PipelineComposes /\ \A i \in Stages : proc[i].state \in {"none", "ended", "killed"}

\* Before anything is started the plan is where it should be.
LEMMA NetBegins ==
  ASSUME NEW cmds \in CommandLines, NEW from \in Befores, NoSharedFiles(cmds),
         from = [files |-> files', shown |-> shown'],
         proc' = [i \in Stages |-> Nothing], pipe' = [j \in Pipes |-> <<>>],
         AllEnds(cmds) \subseteq ends'[Parent], NEW plan, plan = PlanOf(cmds, from)
  PROVE  Net(plan)' /\ Untouched(plan, from)'
  <1> PICK n : n = Len(cmds)
    OBVIOUS
  <1>1. n \in Nat /\ n \in 1 .. MaxStages /\ Len(plan) = n /\ WellFormed(plan) /\ MaxStages \in Nat
    <2>1. n \in Nat /\ n \in 1 .. MaxStages
      BY DEF CommandLines
    <2> QED
      BY <2>1, PlanIs, PlanIsWellFormed, StagesAreBounded
  <1>2. from.files = files' /\ from.shown = shown' /\ \A i \in Stages : proc'[i] = Nothing /\ proc'[i].state = "none"
    BY DEF Nothing
  <1>3. ASSUME NEW i \in 1 .. n PROVE AtWork(plan, i)'
    <2>1. i \in Stages /\ i \in Nat /\ plan[i] \in Tasks /\ Told(plan[i]) \in Seq(Items) /\ plan[i].base \in Seq(Items)
          /\ plan[i].in \in Places /\ plan[i].out \in Places
      BY <1>1, OneTask
    <2>2. proc'[i] = Nothing /\ proc'[i].state = "none" /\ Got(plan[i], proc'[i]) = 0 /\ Put(plan[i], proc'[i]) = 0
      BY <1>2, <2>1 DEF Got, Put
    <2>3. Follows(plan[i], proc[i])'
      BY <2>2 DEF Follows
    <2>4. /\ plan[i].in = IF cmds[i].in # NoFile THEN cmds[i].in ELSE IF i > 1 THEN ThePipe ELSE Tty
          /\ plan[i].out = IF cmds[i].out # NoFile THEN cmds[i].out ELSE IF i < n THEN ThePipe ELSE Tty
          /\ cmds[i].in # NoFile => cmds[i].in.kind = "file"
          /\ cmds[i].out # NoFile => cmds[i].out.kind = "file"
      <3>1. cmds[i] \in Commands
        BY DEF CommandLines
      <3> QED
        BY <3>1, PlanIs, CommandIs
    <2>5. /\ plan[i].in = ThePipe => i > 1
          /\ plan[i].out = ThePipe => i < n
          /\ plan[i].in.kind = "file" => cmds[i].in # NoFile
          /\ plan[i].out = Tty => cmds[i].out = NoFile
      BY <2>4 DEF ThePipe, Tty
    <2>6. PipeKeeps(plan, i)'
      <3> SUFFICES ASSUME plan[i].in = ThePipe PROVE PipeKeeps(plan, i)'
        BY DEF PipeKeeps
      <3>1. i - 1 \in Pipes /\ i - 1 \in Stages /\ i - 1 # 0
        BY <1>1, <2>1, <2>5 DEF Pipes, Stages
      <3>2. pipe'[i - 1] = <<>> /\ i - 1 \in DOMAIN pipe'
        BY <3>1
      <3>3. Sent(plan, i - 1)' = 0
        BY <1>2, <3>1 DEF Sent, Put
      <3> QED
        BY <2>2, <3>2, <3>3 DEF PipeKeeps
    <2>7. SourceStays(plan, i)'
      <3>1. plan[i].in.kind = "file" => plan[i].input = from.files[plan[i].in.name]
        BY <2>4, <2>5, PlanIs
      <3> QED
        BY <1>2, <3>1 DEF SourceStays
    <2>8. SinkGrows(plan, i)'
      <3>1. plan[i].out = Tty => plan[i].base = from.shown
        BY <2>5, PlanIs
      <3>2. Written1(plan, i)' = plan[i].base
        <4>1. SubSeq(Told(plan[i]), 1, 0) = <<>>
          BY ONLY <2>1, WholePart
        <4>2. plan[i].base \o <<>> = plan[i].base
          BY ONLY <2>1
        <4> QED
          BY <2>2, <4>1, <4>2 DEF Written1
      <3> QED
        BY <1>2, <2>2, <3>1, <3>2 DEF SinkGrows
    <2>9. EndsWell(plan, i)'
      BY <2>2 DEF EndsWell
    <2>10. HoldsEnds(plan, i)'
      <3>1. Holder(i)' = Parent
        BY <2>2 DEF Holder
      <3>2. EndsOf(plan, i) \subseteq AllEnds(cmds)
        <4>1. plan[i].in = ThePipe => << i - 1, "r" >> \in AllEnds(cmds)
          BY <1>1, <2>1, <2>5 DEF AllEnds, PipesOf
        <4>2. plan[i].out = ThePipe => << i, "w" >> \in AllEnds(cmds)
          BY <1>1, <2>1, <2>5 DEF AllEnds, PipesOf
        <4> QED
          BY <4>1, <4>2 DEF EndsOf
      <3>3. EndsOf(plan, i)' = EndsOf(plan, i)
        BY DEF EndsOf
      <3> QED
        BY <3>1, <3>2, <3>3 DEF HoldsEnds
    <2> QED
      BY <2>3, <2>6, <2>7, <2>8, <2>9, <2>10 DEF AtWork
  <1>4. Net(plan)'
    BY <1>1, <1>2, <1>3 DEF Net
  <1>5. Untouched(plan, from)'
    BY <1>2 DEF Untouched
  <1> QED
    BY <1>4, <1>5

\* When everybody is over the line has done what it means.
LEMMA LineDone ==
  ASSUME NEW cmds \in CommandLines, NEW from \in Befores, NoSharedFiles(cmds), StageTypes,
         NEW plan, plan = PlanOf(cmds, from), Net(plan), Untouched(plan, from),
         \A i \in 1 .. Len(cmds) : Over(i)
  PROVE  [files |-> files, shown |-> shown] = Meaning(cmds, from)
  <1> PICK n : n = Len(cmds)
    OBVIOUS
  <1>1. n \in Nat /\ n \in 1 .. MaxStages /\ n \in 1 .. n /\ n \in 0 .. n /\ n > 0
        /\ Len(plan) = n /\ WellFormed(plan) /\ MaxStages \in Nat
    <2>1. n \in Nat /\ n \in 1 .. MaxStages
      BY DEF CommandLines
    <2> QED
      BY <2>1, PlanIs, PlanIsWellFormed, StagesAreBounded
  <1> PICK r : r = After(cmds, from)[n]
    OBVIOUS
  <1>2. r \in Meanings /\ AfterParts(cmds, from, n)
    BY <1>1, AfterIs, AfterAll
  <1>3. ASSUME NEW i \in 1 .. n
        PROVE  /\ plan[i].out = IF cmds[i].out # NoFile THEN cmds[i].out ELSE IF i < n THEN ThePipe ELSE Tty
               /\ cmds[i].out # NoFile => cmds[i].out.kind = "file" /\ cmds[i].out.name \in Names
               /\ plan[i].base = IF cmds[i].out # NoFile THEN BaseIn(from.files, cmds[i]) ELSE from.shown
    <2>1. cmds[i] \in Commands
      BY DEF CommandLines
    <2> QED
      BY <2>1, PlanIs, CommandIs
  <1>4. ASSUME NEW f \in Names PROVE files[f] = r.files[f]
    <2>1. CASE \E j \in 1 .. n : cmds[j].out # NoFile /\ cmds[j].out.name = f
      <3>1. PICK j \in 1 .. n : cmds[j].out # NoFile /\ cmds[j].out.name = f
        BY <2>1
      <3>2. plan[j].out = cmds[j].out /\ plan[j].out.kind = "file" /\ plan[j].out # ThePipe
        BY <1>3, <3>1 DEF ThePipe
      <3>3. files[f] = plan[j].base \o Told(plan[j])
        BY <1>1, <3>1, <3>2, AllIsTold
      <3>4. r.files[f] = plan[j].base \o Told(plan[j])
        BY <1>2, <3>1 DEF AfterParts
      <3> QED
        BY ONLY <3>3, <3>4
    <2>2. CASE ~ \E j \in 1 .. n : cmds[j].out # NoFile /\ cmds[j].out.name = f
      <3>1. r.files[f] = from.files[f]
        BY <1>2, <2>2 DEF AfterParts
      <3>2. ASSUME NEW j \in 1 .. n, plan[j].out.kind = "file" PROVE plan[j].out.name # f
        <4>1. cmds[j].out # NoFile /\ plan[j].out = cmds[j].out
          BY <1>3, <3>2 DEF ThePipe, Tty
        <4> QED
          BY <2>2, <4>1
      <3>3. files[f] = from.files[f]
        BY <1>1, <3>2 DEF Untouched
      <3> QED
        BY <3>1, <3>3
    <2> QED
      BY <2>1, <2>2
  <1>5. files = r.files
    <2>1. files \in [Names -> Seq(Items)] /\ r.files \in [Names -> Seq(Items)]
      BY <1>2 DEF StageTypes, Meanings
    <2> QED
      BY ONLY <1>4, <2>1
  <1>6. shown = from.shown \o r.flow
    <2>1. from.shown \in Seq(Items)
      BY DEF Befores
    <2>2. r.flow = IF cmds[n].out # NoFile THEN <<>> ELSE Told(plan[n])
      BY <1>1, <1>2 DEF AfterParts
    <2>3. CASE cmds[n].out = NoFile
      <3>1. plan[n].out = Tty /\ plan[n].out # ThePipe /\ plan[n].base = from.shown
        BY <1>1, <1>3, <2>3 DEF Tty, ThePipe
      <3>2. shown = plan[n].base \o Told(plan[n])
        BY <1>1, <3>1, AllIsTold
      <3> QED
        BY ONLY <2>2, <2>3, <3>1, <3>2
    <2>4. CASE cmds[n].out # NoFile
      <3>1. ASSUME NEW i \in 1 .. n PROVE plan[i].out # Tty
        <4>1. i = n \/ i < n
          BY <1>1
        <4> QED
          BY <1>1, <1>3, <2>4, <4>1 DEF Tty, ThePipe
      <3>2. shown = from.shown
        BY <1>1, <3>1 DEF Untouched
      <3> QED
        BY ONLY <2>1, <2>2, <2>4, <3>2
    <2> QED
      BY <2>3, <2>4
  <1> QED
    BY <1>5, <1>6 DEF Meaning

LEMMA WorkStates ==
  ASSUME StageTypes, NEW i \in Stages, Work(i)
  PROVE  /\ proc[i].state = "runs" /\ proc'[i].state \in {"runs", "ended", "killed"}
         /\ proc'[i].out = proc[i].out /\ proc'[i].code = proc[i].code
         /\ \A k \in Stages : k # i => proc'[k] = proc[k]
  <1>1. proc[i].state = "runs"
    BY DEF Work, WriteToPipe, WriteToFile, ReadFromPipe, ReadFromFile, Finish, Writing, Reading
  <1>2. proc[i] \in Processes /\ proc \in [Stages -> Processes \cup {Nothing}] /\ i \in Stages
    BY <1>1, OneProcess DEF StageTypes
  <1> DEFINE Same(q) == q.state \in {"runs", "ended", "killed"} /\ q.out = proc[i].out /\ q.code = proc[i].code
  <1>3. ASSUME NEW q, proc' = [proc EXCEPT ![i] = q], Same(q)
        PROVE  Same(proc'[i]) /\ \A k \in Stages : k # i => proc'[k] = proc[k]
    <2>1. proc'[i] = q /\ \A k \in Stages : k # i => proc'[k] = proc[k]
      BY <1>3, Others
    <2> QED
      BY <1>3, <2>1
  <1>4. CASE \E how \in {"ended", "killed"} : Leave(i, how)
    <2>1. PICK how \in {"ended", "killed"} : Leave(i, how)
      BY <1>4
    <2> PICK q : q = [proc[i] EXCEPT !.state = how]
      OBVIOUS
    <2>2. Same(q)
      BY ONLY <1>2, how \in {"ended", "killed"}, q = [proc[i] EXCEPT !.state = how] DEF Processes
    <2>3. proc' = [proc EXCEPT ![i] = q]
      BY <2>1 DEF Leave, Becomes
    <2> QED
      BY <1>1, <1>3, <2>2, <2>3
  <1>5. CASE proc' = Written(i)
    <2> PICK q : q = [proc[i] EXCEPT !.text = Tail(@)]
      OBVIOUS
    <2>1. Same(q)
      BY ONLY <1>1, <1>2, q = [proc[i] EXCEPT !.text = Tail(@)] DEF Processes
    <2>2. proc' = [proc EXCEPT ![i] = q]
      BY <1>5 DEF Written
    <2> QED
      BY <1>1, <1>3, <2>1, <2>2
  <1>6. CASE ReadFromPipe(i)
    <2> PICK item : item = Head(pipe[i - 1])
      OBVIOUS
    <2> PICK q : q = [proc[i] EXCEPT !.text = << item >>, !.copies = @ - 1]
      OBVIOUS
    <2>1. proc' = [proc EXCEPT ![i] = q]
      BY <1>6 DEF ReadFromPipe, Becomes, Copied
    <2>2. Same(q)
      BY ONLY <1>1, <1>2, q = [proc[i] EXCEPT !.text = << item >>, !.copies = @ - 1] DEF Processes
    <2> QED
      BY <1>1, <1>3, <2>1, <2>2
  <1>7. CASE ReadFromFile(i)
    <2> PICK pos : pos = proc[i].in.pos + 1
      OBVIOUS
    <2> PICK item : item = files[proc[i].in.name][pos]
      OBVIOUS
    <2> PICK h : h = [proc[i] EXCEPT !.text = << item >>, !.copies = @ - 1]
      OBVIOUS
    <2> PICK q : q = [h EXCEPT !.in.pos = pos]
      OBVIOUS
    <2>1. proc' = [proc EXCEPT ![i] = q]
      <3>1. Becomes(i, [Copied(i, item) EXCEPT !.in.pos = pos])
        BY ONLY <1>7, pos = proc[i].in.pos + 1, item = files[proc[i].in.name][pos] DEF ReadFromFile
      <3>2. [Copied(i, item) EXCEPT !.in.pos = pos] = q
        BY ONLY h = [proc[i] EXCEPT !.text = << item >>, !.copies = @ - 1], q = [h EXCEPT !.in.pos = pos], Zenon DEF Copied
      <3> QED
        BY ONLY <3>1, <3>2 DEF Becomes
    <2>2. Same(h) /\ {"state", "out", "code"} \subseteq DOMAIN h
      BY ONLY <1>1, <1>2, h = [proc[i] EXCEPT !.text = << item >>, !.copies = @ - 1] DEF Processes
    <2>3. Same(q)
      BY ONLY <2>2, q = [h EXCEPT !.in.pos = pos]
    <2> QED
      BY <1>1, <1>3, <2>1, <2>3
  <1>8. \/ \E how \in {"ended", "killed"} : Leave(i, how)
        \/ proc' = Written(i) \/ ReadFromPipe(i) \/ ReadFromFile(i)
    BY DEF Work, WriteToPipe, WriteToFile, Finish
  <1> QED
    BY <1>4, <1>5, <1>6, <1>7, <1>8

LEMMA WorkTouches ==
  ASSUME MaxStages \in Nat, NEW plan, WellFormed(plan), StageTypes, Net(plan), NEW from, Untouched(plan, from),
         NEW i \in Stages, Work(i)
  PROVE  Untouched(plan, from)'
  <1>1. /\ proc[i].state = "runs" /\ proc'[i].state # "none"
        /\ \A k \in Stages : k # i => proc'[k] = proc[k]
    BY WorkStates
  <1>2. i \in 1 .. Len(plan) /\ proc[i].out = plan[i].out /\ proc[i] \in Processes /\ plan[i].out \in Places
    BY <1>1, AtWorkNow, OneTask
  <1>3. \A k \in 1 .. Len(plan) : k \in Stages /\ (proc'[k].state = "none" <=> proc[k].state = "none")
    BY <1>1, OneTask
  <1>4. /\ \A f \in Names : files'[f] = files[f] \/ (plan[i].out.kind = "file" /\ plan[i].out.name = f)
        /\ shown' = shown \/ plan[i].out = Tty
    <2>1. CASE WriteToFile(i)
      <3>1. CASE proc[i].out = Tty
        BY <1>2, <2>1, <3>1 DEF WriteToFile
      <3>2. CASE proc[i].out # Tty
        <4>1. plan[i].out.kind = "file"
          BY <1>2, <2>1, <3>2, PlacesDiffer DEF WriteToFile
        <4> QED
          BY <1>2, <2>1, <3>2, <4>1 DEF WriteToFile, StageTypes
      <3> QED
        BY <3>1, <3>2
    <2>2. CASE ~WriteToFile(i)
      BY <2>2 DEF Work, WriteToPipe, ReadFromPipe, ReadFromFile, Finish
    <2> QED
      BY <2>1, <2>2
  <1>5. ASSUME NEW f \in Names,
               \A k \in 1 .. Len(plan) : plan[k].out.kind = "file" /\ plan[k].out.name = f => proc'[k].state = "none"
        PROVE  files'[f] = from.files[f]
    <2>1. files'[f] = files[f]
      BY <1>1, <1>2, <1>4, <1>5
    <2>2. files[f] = from.files[f]
      BY <1>3, <1>5 DEF Untouched
    <2> QED
      BY <2>1, <2>2
  <1>6. (\A k \in 1 .. Len(plan) : plan[k].out # Tty) => shown' = from.shown
    BY <1>2, <1>4 DEF Untouched
  <1> QED
    BY <1>5, <1>6 DEF Untouched

LEMMA ThePlan ==
  ASSUME ShellInv, pc \in {"starting", "waiting"}, NoSharedFiles(line),
         NEW plan, NEW from, from = before, plan = PlanOf(line, from)
  PROVE  /\ line \in CommandLines /\ from \in Befores /\ StageTypes
         /\ Net(plan) /\ Untouched(plan, from) /\ WellFormed(plan) /\ Len(plan) = Len(line)
         /\ Len(line) \in Nat /\ Len(line) \in 1 .. MaxStages /\ MaxStages \in Nat
  <1>1. line \in CommandLines /\ from \in Befores /\ StageTypes
    BY DEF ShellInv, ShellTypes
  <1>2. Len(line) \in Nat /\ Len(line) \in 1 .. MaxStages /\ MaxStages \in Nat
    BY <1>1, StagesAreBounded DEF CommandLines
  <1>3. Net(plan) /\ Untouched(plan, from)
    BY DEF ShellInv, OnTheWay
  <1>4. Len(plan) = Len(line)
    <2>1. 1 \in 1 .. Len(line)
      BY <1>2
    <2> QED
      BY <1>1, <2>1, PlanIs
  <1> QED
    BY <1>1, <1>2, <1>3, <1>4, PlanIsWellFormed

\* The commands at work.
LEMMA ShellWork ==
  ASSUME ShellInv, NEW i \in Stages, Work(i), UNCHANGED << shell, at, pc, status, settings, leaked >>
  PROVE  ShellInv'
  <1>0. StageTypes /\ MaxStages \in Nat /\ script' = script /\ line' = line /\ before' = before /\ at' = at /\ pc' = pc
    BY StagesAreBounded DEF ShellInv, ShellTypes, shell
  <1>1. /\ proc[i].state = "runs" /\ proc'[i].state \in {"runs", "ended", "killed"}
        /\ \A k \in Stages : k # i => proc'[k] = proc[k]
    BY <1>0, WorkStates
  <1>2. ShellTypes'
    BY <1>0, WorkKeepsTypes DEF ShellInv, ShellTypes
  <1>3. pc = "starting" => Begins'
    BY <1>0, <1>1 DEF ShellInv, Begins
  <1>4. pc = "waiting" => Goes'
    BY <1>0, <1>1 DEF ShellInv, Goes, Over
  <1>5. ASSUME pc \in {"starting", "waiting"}, NoSharedFiles(line) PROVE OnTheWay'
    <2> SUFFICES ASSUME NEW plan, NEW from, from = before, plan = PlanOf(line, from)
                 PROVE  Net(plan)' /\ Untouched(plan, from)'
      BY <1>0 DEF OnTheWay
    <2>1. WellFormed(plan) /\ Net(plan) /\ Untouched(plan, from)
      BY <1>5, ThePlan
    <2> QED
      BY <1>0, <2>1, WorkKeepsNet, WorkTouches
  <1>6. pc # "prompt"
    BY <1>1 DEF ShellInv
  <1> QED
    BY <1>0, <1>2, <1>3, <1>4, <1>5, <1>6 DEF ShellInv

LEMMA ShellSetUp ==
  ASSUME ShellInv, NEW i \in Stages, SetUp(i)
  PROVE  ShellInv'
  <1> PICK q : q = [proc[i] EXCEPT !.state = "runs"]
    OBVIOUS
  <1>0. StageTypes /\ MaxStages \in Nat /\ script' = script /\ line' = line /\ before' = before /\ at' = at /\ pc' = pc
    BY StagesAreBounded DEF ShellInv, ShellTypes, shell, SetUp
  <1>1. /\ proc[i].state = "forked" /\ proc' = [proc EXCEPT ![i] = q]
        /\ ends' = [ends EXCEPT ![i] = KeepOwn(i, @)] /\ UNCHANGED << pipe, files, shown >>
    BY DEF SetUp, Becomes
  <1>2. proc[i] \in Processes
    BY <1>0, <1>1, OneProcess
  <1>3. /\ proc'[i] = q /\ proc'[i].state = "runs"
        /\ \A k \in Stages : k # i => proc'[k] = proc[k]
    <2>1. proc'[i] = q /\ \A k \in Stages : k # i => proc'[k] = proc[k]
      BY <1>0, <1>1, Others
    <2>2. q.state = "runs"
      BY ONLY <1>2, q = [proc[i] EXCEPT !.state = "runs"] DEF Processes
    <2> QED
      BY <2>1, <2>2
  <1>4. StageTypes'
    BY <1>0, <1>1, SetUpKeepsTypes
  <1>5. ShellTypes'
    BY <1>0, <1>4 DEF ShellInv, ShellTypes
  <1>6. pc = "starting" => Begins'
    BY <1>0, <1>1, <1>3 DEF ShellInv, Begins
  <1>7. pc = "waiting" => Goes'
    BY <1>0, <1>1, <1>3 DEF ShellInv, Goes, Over
  <1>8. ASSUME pc \in {"starting", "waiting"}, NoSharedFiles(line) PROVE OnTheWay'
    <2> SUFFICES ASSUME NEW plan, NEW from, from = before, plan = PlanOf(line, from)
                 PROVE  Net(plan)' /\ Untouched(plan, from)'
      BY <1>0 DEF OnTheWay
    <2>1. WellFormed(plan) /\ Net(plan) /\ Untouched(plan, from)
      BY <1>8, ThePlan
    <2>2. (proc[i].in = ThePipe <=> plan[i].in = ThePipe) /\ proc[i].out = plan[i].out
      BY <1>0, <1>1, <2>1, AtWorkNow
    <2>3. i \in DOMAIN ends /\ \A j \in DOMAIN ends : j # i => ends'[j] = ends[j]
      BY <1>0, <1>1 DEF StageTypes
    <2>4. ends[i] \cap EndsOf(plan, i) \subseteq ends'[i]
      <3>1. ends'[i] = KeepOwn(i, ends[i])
        BY <1>1, <2>3
      <3> QED
        BY <2>2, <3>1 DEF KeepOwn, EndsOf
    <2>5. Net(plan)'
      BY <1>0, <1>1, <2>1, <2>3, <2>4, SetsUp
    <2>6. Untouched(plan, from)'
      <3>1. \A k \in 1 .. Len(plan) : k \in Stages
        BY <1>0, <2>1, OneTask
      <3>2. \A k \in 1 .. Len(plan) : proc'[k].state = "none" => proc[k].state = "none"
        BY <1>3, <3>1
      <3> QED
        BY <1>1, <2>1, <3>2 DEF Untouched
    <2> QED
      BY <2>5, <2>6
  <1>9. pc # "prompt"
    BY <1>1 DEF ShellInv
  <1> QED
    BY <1>0, <1>5, <1>6, <1>7, <1>8, <1>9 DEF ShellInv

LEMMA ShellReads ==
  ASSUME ShellInv, ReadLine
  PROVE  ShellInv'
  <1> PICK cmds : cmds = Head(script)
    OBVIOUS
  <1>1. /\ script # <<>> /\ cmds \notin {Exit, BadLine} /\ script' = Tail(script) /\ line' = cmds
        /\ before' = [files |-> files, shown |-> shown] /\ files' = files
    BY DEF ReadLine
  <1>2. cmds \in CommandLines /\ Tail(script) \in Seq(ScriptLines)
    BY <1>1 DEF ShellInv, ShellTypes, ScriptLines
  <1>3. StageTypes /\ before' \in Befores /\ MaxStages \in Nat
    BY <1>1, StagesAreBounded DEF ShellInv, ShellTypes, StageTypes, Befores
  <1>4. CASE Die("failed")
    <2>1. UNCHANGED << proc, pipe, shown >> /\ pc' = "failed" /\ DOMAIN ends' = DOMAIN ends
      BY <1>4 DEF Die
    <2>2. StageTypes'
      BY <1>1, <1>3, <2>1 DEF StageTypes
    <2> QED
      BY <1>1, <1>2, <1>3, <2>1, <2>2 DEF ShellInv, ShellTypes
  <1>5. CASE /\ pc' = "starting" /\ at' = 1
             /\ proc' = [i \in Stages |-> Nothing] /\ pipe' = [j \in Pipes |-> <<>>]
             /\ ends' = [ends EXCEPT ![Parent] = AllEnds(cmds)]
             /\ UNCHANGED << status, settings, leaked, shown >>
    <2>1. StageTypes'
      <3>1. proc' \in [Stages -> Processes \cup {Nothing}] /\ \A i \in Stages : proc'[i].state = "none"
        BY <1>5 DEF Nothing
      <3>2. pipe' \in [DOMAIN pipe' -> Seq(Items)] /\ Pipes \subseteq DOMAIN pipe'
        BY <1>5
      <3>3. DOMAIN ends' = DOMAIN ends /\ files' = files /\ shown' = shown
        BY <1>1, <1>5
      <3> QED
        BY <1>3, <3>1, <3>2, <3>3 DEF StageTypes
    <2>2. ShellTypes'
      BY <1>1, <1>2, <1>3, <1>5, <2>1 DEF ShellTypes
    <2>3. Begins'
      <3>1. Len(cmds) \in Nat
        BY <1>2 DEF CommandLines
      <3>2. \A i \in Stages : proc'[i].state = "none" /\ i >= 1
        BY <1>3, <1>5 DEF Nothing, Stages
      <3> QED
        BY <1>1, <1>5, <3>1, <3>2 DEF Begins
    <2>4. ASSUME NoSharedFiles(line') PROVE OnTheWay'
      <3> SUFFICES ASSUME NEW plan, NEW from, from = before', plan = PlanOf(line', from)
                   PROVE  Net(plan)' /\ Untouched(plan, from)'
        BY DEF OnTheWay
      <3>1. AllEnds(cmds) \subseteq ends'[Parent]
        BY <1>3, <1>5 DEF StageTypes
      <3>2. from \in Befores /\ NoSharedFiles(cmds) /\ from = [files |-> files', shown |-> shown'] /\ plan = PlanOf(cmds, from)
        BY <1>1, <1>3, <1>5, <2>4
      <3> QED
        BY <1>2, <1>5, <3>1, <3>2, NetBegins
    <2> QED
      BY <1>5, <2>2, <2>3, <2>4 DEF ShellInv
  <1> QED
    BY <1>1, <1>4, <1>5 DEF ReadLine

LEMMA OpenedIs ==
  ASSUME StageTypes, NEW c \in Commands
  PROVE  /\ Opened(c) \in [Names -> Seq(Items)]
         /\ c.out = NoFile => Opened(c) = files
         /\ c.out # NoFile =>
              /\ Opened(c)[c.out.name] = BaseIn(files, c)
              /\ \A f \in Names : f # c.out.name => Opened(c)[f] = files[f]
  <1>1. files \in [Names -> Seq(Items)] /\ (c.out # NoFile => c.out.name \in Names)
    BY CommandIs DEF StageTypes
  <1>2. CASE c.out = NoFile
    BY <1>1, <1>2 DEF Opened
  <1>3. CASE c.out # NoFile
    <2> PICK name : name = c.out.name
      OBVIOUS
    <2> PICK base : base = BaseIn(files, c)
      OBVIOUS
    <2>1. name \in Names /\ files[name] \in Seq(Items)
      BY <1>1, <1>3
    <2>2. base \in Seq(Items) /\ base = IF files[name] = Absent \/ ~c.append THEN <<>> ELSE files[name]
      BY <2>1 DEF BaseIn
    <2>3. Opened(c) = [files EXCEPT ![name] = base]
      BY <1>1, <1>3, <2>1, <2>2 DEF Opened
    <2>4. [files EXCEPT ![name] = base] \in [Names -> Seq(Items)] /\ [files EXCEPT ![name] = base][name] = base
          /\ \A f \in Names : f # name => [files EXCEPT ![name] = base][f] = files[f]
      BY ONLY <1>1, <2>1, <2>2
    <2> QED
      BY <1>3, <2>3, <2>4
  <1> QED
    BY <1>2, <1>3

\* The shell ends with what is at work still at work.
LEMMA ShellDies ==
  ASSUME ShellInv, UNCHANGED shell, NEW how \in {"failed", "crashed"}, Die(how),
         files' \in [Names -> Seq(Items)]
  PROVE  ShellInv'
  <1>1. UNCHANGED << script, line, before, proc, pipe, shown >> /\ pc' = how /\ DOMAIN ends' = DOMAIN ends
    BY DEF Die, shell
  <1>2. StageTypes'
    BY <1>1 DEF ShellInv, ShellTypes, StageTypes
  <1> QED
    BY <1>1, <1>2 DEF ShellInv, ShellTypes

LEMMA ShellForks ==
  ASSUME ShellInv, Fork
  PROVE  ShellInv'
  <1> PICK i : i = at
    OBVIOUS
  <1> PICK n : n = Len(line)
    OBVIOUS
  <1> PICK c : c = line[i]
    OBVIOUS
  <1> PICK src : src = IF c.in # NoFile THEN c.in ELSE IF i > 1 THEN ThePipe ELSE Tty
    OBVIOUS
  <1> PICK dst : dst = IF c.out # NoFile THEN c.out ELSE IF i < n THEN ThePipe ELSE Tty
    OBVIOUS
  <1> PICK q : q = [state |-> "forked", text |-> c.program.text, copies |-> c.program.copies,
                    code |-> c.program.code, in |-> src, out |-> dst]
    OBVIOUS
  <1>1. /\ pc = "starting" /\ i <= n /\ proc' = [proc EXCEPT ![i] = q] /\ ends' = [ends EXCEPT ![i] = ends[Parent]]
        /\ files' = Opened(c) /\ at' = i + 1 /\ pc' = pc /\ UNCHANGED << pipe, shown >>
        /\ script' = script /\ line' = line /\ before' = before
    BY DEF Fork, Ready, cmd, Becomes, shell
  <1>2. StageTypes /\ Begins /\ line \in CommandLines /\ MaxStages \in Nat
    BY <1>1, StagesAreBounded DEF ShellInv, ShellTypes
  <1>3. n \in Nat /\ n <= MaxStages /\ i \in 1 .. n /\ i \in Stages /\ c \in Commands
    BY <1>1, <1>2 DEF CommandLines, Begins, Stages
  <1>4. proc[i].state = "none"
    BY <1>2, <1>3 DEF Begins
  <1>5. q \in Processes /\ q.state = "forked" /\ q.in = src
    <2>1. c.program \in Programs /\ src \in Places /\ dst \in Places
      BY <1>3, CommandIs DEF Places
    <2> QED
      BY ONLY <2>1, q = [state |-> "forked", text |-> c.program.text, copies |-> c.program.copies,
                    code |-> c.program.code, in |-> src, out |-> dst] DEF Processes, Programs
  <1>6. proc'[i] = q /\ \A k \in Stages : k # i => proc'[k] = proc[k]
    <2>1. proc' = [proc EXCEPT ![i] = q] /\ StageTypes /\ i \in Stages
      BY <1>1, <1>2, <1>3
    <2> QED
      BY ONLY <2>1, Others
  <1>7. StageTypes'
    <2>1. q.in = ThePipe => i - 1 \in DOMAIN pipe
      <3> SUFFICES ASSUME src = ThePipe PROVE i - 1 \in DOMAIN pipe
        BY <1>5
      <3>1. i > 1
        <4>1. c.in # NoFile => c.in.kind = "file"
          BY <1>3, CommandIs
        <4> QED
          BY <4>1 DEF ThePipe, Tty
      <3>2. i - 1 \in Pipes
        BY <1>2, <1>3, <3>1 DEF Pipes
      <3> QED
        BY <1>2, <3>2 DEF StageTypes
    <2>2. DOMAIN pipe' = DOMAIN pipe /\ DOMAIN ends' = DOMAIN ends /\ pipe' \in [DOMAIN pipe -> Seq(Items)] /\ shown' \in Seq(Items)
      BY <1>1, <1>2 DEF StageTypes
    <2>3. files' \in [Names -> Seq(Items)]
      BY <1>1, <1>2, <1>3, OpenedIs
    <2> QED
      BY <1>1, <1>2, <1>3, <1>5, <2>1, <2>2, <2>3, TypesKeep
  <1>8. ShellTypes'
    BY <1>1, <1>7 DEF ShellInv, ShellTypes
  <1>9. Begins'
    <2>1. at' \in 1 .. Len(line') + 1
      BY <1>1, <1>3
    <2>2. ASSUME NEW k \in Stages PROVE proc'[k].state = "none" <=> k >= at'
      <3>1. k \in Int /\ i \in Int
        BY <1>2, <1>3 DEF Stages
      <3>2. CASE k = i
        BY <1>1, <1>5, <1>6, <3>1, <3>2
      <3>3. CASE k # i
        <4>1. proc'[k].state = "none" <=> k >= i
          BY <1>2, <1>6, <3>3 DEF Begins
        <4> QED
          BY <1>1, <3>1, <3>3, <4>1
      <3> QED
        BY <3>2, <3>3
    <2> QED
      BY <2>1, <2>2 DEF Begins
  <1>10. ASSUME NoSharedFiles(line) PROVE OnTheWay'
    <2> SUFFICES ASSUME NEW plan, NEW from, from = before, plan = PlanOf(line, from)
                 PROVE  Net(plan)' /\ Untouched(plan, from)'
      BY <1>1 DEF OnTheWay
    <2>1. WellFormed(plan) /\ Net(plan) /\ Untouched(plan, from) /\ Len(plan) = n /\ from \in Befores
      BY <1>1, <1>10, ThePlan
    <2>2. plan[i].in = src /\ plan[i].out = dst /\ plan[i].program = c.program
          /\ (c.out # NoFile => plan[i].base = BaseIn(from.files, c))
      BY <1>2, <1>3, <2>1, PlanIs
    <2>3. /\ c.out # NoFile => c.out.name \in Names /\ c.out.kind = "file"
          /\ plan[i].out.kind = "file" => c.out # NoFile /\ plan[i].out = c.out
      <3>1. c.out # NoFile => c.out.name \in Names /\ c.out.kind = "file"
        BY <1>3, CommandIs
      <3> QED
        BY <2>2, <3>1 DEF ThePipe, Tty
    <2>4. \A f \in Names : files'[f] = files[f] \/ (plan[i].out.kind = "file" /\ plan[i].out.name = f)
      <3>1. CASE c.out = NoFile
        BY <1>1, <1>2, <1>3, <3>1, OpenedIs
      <3>2. CASE c.out # NoFile
        <4>1. plan[i].out = c.out
          BY <2>2, <3>2
        <4> QED
          BY <1>1, <1>2, <1>3, <2>3, <3>2, <4>1, OpenedIs
      <3> QED
        BY <3>1, <3>2
    <2>5. ASSUME plan[i].out.kind = "file" PROVE files'[plan[i].out.name] = plan[i].base
      <3>1. c.out # NoFile /\ plan[i].out = c.out /\ c.out.name \in Names
        BY <2>3, <2>5
      <3>2. files'[c.out.name] = BaseIn(files, c)
        BY <1>1, <1>2, <1>3, <3>1, OpenedIs
      <3>3. files[c.out.name] = from.files[c.out.name]
        <4>1. ASSUME NEW k \in 1 .. n, plan[k].out.kind = "file", plan[k].out.name = c.out.name PROVE k = i
          BY <1>3, <2>1, <2>5, <3>1, <4>1 DEF WellFormed
        <4> QED
          BY <1>4, <2>1, <3>1, <4>1 DEF Untouched
      <3> QED
        BY <2>2, <3>1, <3>2, <3>3 DEF BaseIn
    <2>6. /\ i \in DOMAIN ends /\ Parent \in DOMAIN ends /\ Parent # i
          /\ ends'[i] = ends[Parent] /\ ends'[Parent] = ends[Parent]
          /\ \A j \in DOMAIN ends : j # i => ends'[j] = ends[j]
      <3>1. i \in DOMAIN ends /\ Parent \in DOMAIN ends /\ Parent # i
        BY <1>2, <1>3 DEF StageTypes, Parent
      <3> QED
        BY <1>1, <3>1
    <2>7. q = [state |-> "forked", text |-> plan[i].program.text, copies |-> plan[i].program.copies,
               code |-> plan[i].program.code, in |-> plan[i].in, out |-> plan[i].out]
      BY <2>2
    <2>8. Net(plan)'
      <3>1. i \in 1 .. Len(plan)
        BY <1>3, <2>1
      <3>2. UNCHANGED << pipe, shown >> /\ proc' = [proc EXCEPT ![i] = q]
        BY <1>1
      <3> QED
        BY ONLY <1>2, <1>4, <2>1, <2>4, <2>5, <2>6, <2>7, <3>1, <3>2, Launches
    <2>9. Untouched(plan, from)'
      <3>1. \A k \in 1 .. Len(plan) : k \in Stages
        BY <1>2, <2>1, OneTask
      <3>2. \A k \in 1 .. Len(plan) : proc'[k].state = "none" => proc[k].state = "none" /\ k # i
        BY <1>4, <1>5, <1>6, <3>1
      <3>3. ASSUME NEW f \in Names,
                   \A k \in 1 .. Len(plan) : plan[k].out.kind = "file" /\ plan[k].out.name = f => proc'[k].state = "none"
            PROVE  files'[f] = from.files[f]
        <4>1. files[f] = from.files[f]
          BY <2>1, <3>2, <3>3 DEF Untouched
        <4>2. files'[f] = files[f]
          BY <1>3, <2>1, <2>4, <3>2, <3>3
        <4> QED
          BY <4>1, <4>2
      <3> QED
        BY <1>1, <2>1, <3>3 DEF Untouched
    <2> QED
      BY <2>8, <2>9
  <1> QED
    BY <1>1, <1>8, <1>9, <1>10 DEF ShellInv

LEMMA ShellCloses ==
  ASSUME ShellInv, ClosePipes
  PROVE  ShellInv'
  <1>1. /\ pc = "starting" /\ at > Len(line) /\ ends' = [ends EXCEPT ![Parent] = {}]
        /\ at' = 1 /\ pc' = "waiting" /\ UNCHANGED << proc, pipe, files, shown >>
        /\ script' = script /\ line' = line /\ before' = before
    BY DEF ClosePipes, shell
  <1>2. StageTypes /\ Begins /\ line \in CommandLines /\ MaxStages \in Nat
    BY <1>1, StagesAreBounded DEF ShellInv, ShellTypes
  <1>3. Len(line) \in Nat /\ Len(line) \in 1 .. MaxStages /\ at = Len(line) + 1
    BY <1>1, <1>2 DEF CommandLines, Begins
  <1>4. ShellTypes'
    <2>1. StageTypes'
      BY <1>1, <1>2 DEF StageTypes
    <2> QED
      BY <1>1, <1>2, <2>1 DEF ShellInv, ShellTypes
  <1>5. Goes'
    <2>1. \A i \in Stages : proc'[i].state = "none" <=> i > Len(line')
      BY <1>1, <1>2, <1>3 DEF Begins, Stages
    <2>2. \A i \in Stages : ~(i < at')
      BY <1>1, <1>2 DEF Stages
    <2> QED
      BY <1>1, <1>3, <2>1, <2>2 DEF Goes
  <1>6. ASSUME NoSharedFiles(line) PROVE OnTheWay'
    <2> SUFFICES ASSUME NEW plan, NEW from, from = before, plan = PlanOf(line, from)
                 PROVE  Net(plan)' /\ Untouched(plan, from)'
      BY <1>1 DEF OnTheWay
    <2>1. WellFormed(plan) /\ Net(plan) /\ Untouched(plan, from) /\ Len(plan) = Len(line)
      BY <1>1, <1>6, ThePlan
    <2>2. ASSUME NEW i \in 1 .. Len(plan) PROVE proc[i].state # "none" /\ ends'[i] = ends[i]
      <3>1. i \in Stages /\ i < at /\ i # Parent
        BY <1>2, <1>3, <2>1 DEF Stages, Parent
      <3>2. proc[i].state # "none"
        BY <1>2, <1>3, <3>1 DEF Begins, Stages
      <3>3. i \in DOMAIN ends
        BY <1>2, <3>1 DEF StageTypes
      <3> QED
        BY <1>1, <3>1, <3>2, <3>3
    <2>3. Net(plan)'
      BY <1>1, <1>2, <2>1, <2>2, ParentCloses
    <2>4. Untouched(plan, from)'
      BY <1>1, <2>1 DEF Untouched
    <2> QED
      BY <2>3, <2>4
  <1> QED
    BY <1>1, <1>4, <1>5, <1>6 DEF ShellInv

LEMMA ShellWaits ==
  ASSUME ShellInv, Wait
  PROVE  ShellInv'
  <1>1. /\ pc = "waiting" /\ at <= Len(line) /\ Over(at) /\ at' = at + 1
        /\ pc' = (IF at = Len(line) THEN "prompt" ELSE pc)
        /\ UNCHANGED << script, line, before, stageVars >>
    BY DEF Wait, shell
  <1>2. StageTypes /\ Goes /\ line \in CommandLines /\ MaxStages \in Nat
        /\ UNCHANGED << proc, pipe, ends, files, shown >>
    BY <1>1, StagesAreBounded DEF ShellInv, ShellTypes, stageVars
  <1>3. Len(line) \in Nat /\ Len(line) \in 1 .. MaxStages /\ at \in 1 .. Len(line)
    BY <1>2 DEF CommandLines, Goes
  <1>4. ShellTypes'
    <2>1. StageTypes'
      BY <1>2 DEF StageTypes
    <2> QED
      BY <1>1, <1>2, <2>1 DEF ShellInv, ShellTypes
  <1>5. ASSUME NEW i \in Stages, i < at + 1 PROVE Over(i)
    BY <1>1, <1>2, <1>3, <1>5 DEF Goes, Stages
  <1>6. ASSUME at # Len(line) PROVE Goes'
    <2>1. at' \in 1 .. Len(line')
      BY <1>1, <1>3, <1>6
    <2> QED
      BY <1>1, <1>2, <1>5, <2>1 DEF Goes, Over
  <1>7. ASSUME NoSharedFiles(line) PROVE OnTheWay'
    <2> SUFFICES ASSUME NEW plan, NEW from, from = before, plan = PlanOf(line, from)
                 PROVE  Net(plan)' /\ Untouched(plan, from)'
      BY <1>1 DEF OnTheWay
    <2>1. WellFormed(plan) /\ Net(plan) /\ Untouched(plan, from) /\ Len(plan) = Len(line)
      BY <1>1, <1>7, ThePlan
    <2>2. Net(plan)'
      BY <1>1, <2>1, NetStays
    <2>3. Untouched(plan, from)'
      BY <1>2, <2>1 DEF Untouched
    <2> QED
      BY <2>2, <2>3
  <1>8. ASSUME at = Len(line)
        PROVE  PipelineComposes' /\ \A i \in Stages : proc'[i].state \in {"none", "ended", "killed"}
    <2>1. \A i \in 1 .. Len(line) : i \in Stages /\ Over(i)
      <3> SUFFICES ASSUME NEW i \in 1 .. Len(line) PROVE i \in Stages /\ Over(i)
        OBVIOUS
      <3>1. i \in Stages /\ i < at + 1
        BY <1>2, <1>3, <1>8 DEF Stages
      <3> QED
        BY <1>5, <3>1
    <2>2. ASSUME NoSharedFiles(line) PROVE [files |-> files, shown |-> shown] = Meaning(line, before)
      <3> PICK from : from = before
        OBVIOUS
      <3> PICK cmds : cmds = line
        OBVIOUS
      <3> PICK plan : plan = PlanOf(line, from)
        OBVIOUS
      <3>1. cmds \in CommandLines /\ from \in Befores /\ StageTypes /\ Net(plan) /\ Untouched(plan, from)
        BY <1>1, <2>2, ThePlan
      <3>2. NoSharedFiles(cmds) /\ plan = PlanOf(cmds, from) /\ \A i \in 1 .. Len(cmds) : Over(i)
        BY <2>1, <2>2
      <3>3. [files |-> files, shown |-> shown] = Meaning(cmds, from)
        BY ONLY <3>1, <3>2, LineDone
      <3> QED
        BY ONLY <3>3, cmds = line, from = before
    <2>3. PipelineComposes'
      BY <1>1, <1>2, <2>2 DEF PipelineComposes
    <2>4. ASSUME NEW i \in Stages PROVE proc'[i].state \in {"none", "ended", "killed"}
      <3>1. i \in 1 .. Len(line) \/ i > Len(line)
        BY <1>2, <1>3 DEF Stages
      <3> QED
        BY <1>2, <2>1, <3>1 DEF Goes, Over
    <2> QED
      BY <2>3, <2>4
  <1> QED
    BY <1>1, <1>4, <1>6, <1>7, <1>8 DEF ShellInv

LEMMA ShellRunsHere ==
  ASSUME ShellInv, RunHere
  PROVE  ShellInv'
  <1> PICK c : c = line[at]
    OBVIOUS
  <1>1. /\ pc = "starting" /\ at <= Len(line) /\ Len(line) = 1 /\ c.in = NoFile /\ c.out = NoFile
        /\ shown' = shown \o c.program.text /\ pc' = "prompt"
        /\ UNCHANGED << script, line, before, at, proc, pipe, ends, files >>
    BY DEF RunHere, Ready, cmd, Alone, Redirected, shell
  <1>2. StageTypes /\ Begins /\ line \in CommandLines /\ before \in Befores /\ MaxStages \in Nat
    BY <1>1, StagesAreBounded DEF ShellInv, ShellTypes
  <1>3. at = 1 /\ c \in Commands /\ c = line[1] /\ c.program \in Programs
    <2>1. at = 1
      BY <1>1, <1>2 DEF Begins
    <2> QED
      BY <1>1, <1>2, <2>1, CommandIs DEF CommandLines
  <1>4. ShellTypes'
    <2>1. shown' \in Seq(Items)
      BY <1>1, <1>2, <1>3 DEF StageTypes, Programs
    <2>2. StageTypes'
      BY <1>1, <1>2, <2>1 DEF StageTypes
    <2> QED
      BY <1>1, <1>2, <2>2 DEF ShellInv, ShellTypes
  <1>5. \A i \in Stages : proc'[i].state = "none"
    BY <1>1, <1>2, <1>3 DEF Begins, Stages
  <1>6. PipelineComposes'
    <2> PICK cmds : cmds = line
      OBVIOUS
    <2> PICK from : from = before
      OBVIOUS
    <2> PICK plan : plan = PlanOf(cmds, from)
      OBVIOUS
    <2>1. NoSharedFiles(line)
      <3>1. DOMAIN line = {1}
        BY <1>1, <1>2 DEF CommandLines
      <3> QED
        BY <1>1, <1>3, <3>1 DEF NoSharedFiles, Uses
    <2>2. /\ cmds \in CommandLines /\ from \in Befores /\ NoSharedFiles(cmds) /\ Net(plan) /\ Untouched(plan, from)
          /\ WellFormed(plan) /\ Len(plan) = 1 /\ Len(cmds) = 1 /\ 1 \in 1 .. Len(cmds) /\ 1 \in 1 .. Len(plan)
      <3>1. plan = PlanOf(line, from)
        OBVIOUS
      <3>2. /\ line \in CommandLines /\ from \in Befores /\ Net(plan) /\ Untouched(plan, from)
            /\ WellFormed(plan) /\ Len(plan) = Len(line)
        BY <1>1, <2>1, <3>1, ThePlan
      <3>3. Len(cmds) = 1 /\ Len(plan) = 1
        BY <1>1, <3>2
      <3> QED
        BY <2>1, <3>2, <3>3
    <2>3. plan[1].out = Tty /\ plan[1].base = from.shown /\ plan[1].input = <<>> /\ plan[1].program = c.program
      <3>1. cmds[1] = c
        BY <1>3
      <3>2. /\ plan[1].out = Tty /\ plan[1].base = from.shown /\ plan[1].program = c.program
            /\ plan[1].input = After(cmds, from)[1 - 1].flow
        <4> PICK i : i = 1
          OBVIOUS
        <4>1. i \in 1 .. Len(cmds) /\ cmds \in CommandLines /\ from \in Befores
          BY <2>2
        <4>2. /\ PlanOf(cmds, from)[i].program = cmds[i].program
              /\ PlanOf(cmds, from)[i].out = IF cmds[i].out # NoFile THEN cmds[i].out
                                              ELSE IF i < Len(cmds) THEN ThePipe ELSE Tty
              /\ PlanOf(cmds, from)[i].input =
                   IF cmds[i].in # NoFile THEN from.files[cmds[i].in.name] ELSE After(cmds, from)[i - 1].flow
              /\ PlanOf(cmds, from)[i].base = IF cmds[i].out # NoFile THEN BaseIn(from.files, cmds[i]) ELSE from.shown
          BY ONLY <4>1, PlanIs
        <4>3. cmds[i] = c /\ c.out = NoFile /\ c.in = NoFile /\ ~(i < Len(cmds))
          BY <1>1, <2>2, <3>1
        <4> QED
          BY ONLY <4>2, <4>3, i = 1, plan = PlanOf(cmds, from)
      <3>3. After(cmds, from)[0] = [files |-> from.files, flow |-> <<>>]
        BY <2>2, AfterIs
      <3> QED
        BY ONLY <3>2, <3>3
    <2>4. Told(plan[1]) = c.program.text
      <3> PICK p : p = c.program
        OBVIOUS
      <3>1. p.text \in Seq(Items) /\ p.copies \in Nat
        BY <1>3 DEF Programs
      <3>2. Output(p, <<>>) = p.text \o SubSeq(<<>>, 1, IF p.copies < 0 THEN p.copies ELSE 0)
        BY DEF Output
      <3>3. SubSeq(<<>>, 1, IF p.copies < 0 THEN p.copies ELSE 0) = <<>>
        BY ONLY <3>1
      <3>4. Output(p, <<>>) = p.text
        BY ONLY <3>1, <3>2, <3>3
      <3> QED
        BY ONLY <2>3, <3>4, p = c.program DEF Told
    <2>5. files = from.files
      <3>1. plan[1].out.kind # "file"
        BY <2>3 DEF Tty
      <3>2. \A f \in Names : files[f] = from.files[f]
        BY <2>2, <3>1 DEF Untouched
      <3> QED
        BY <1>2, <3>2 DEF StageTypes, Befores
    <2>6. shown = from.shown
      <3>1. proc[1].state = "none" /\ 1 \in Stages
        BY <1>1, <1>2, <1>3 DEF Begins, Stages, CommandLines
      <3>2. AtWork(plan, 1) /\ Told(plan[1]) \in Seq(Items) /\ from.shown \in Seq(Items)
        BY <1>2, <2>2, OneTask DEF Net, Befores
      <3>3. shown = from.shown \o SubSeq(Told(plan[1]), 1, Put(plan[1], proc[1]))
        BY <2>3, <3>2 DEF AtWork, SinkGrows, Written1
      <3>4. Put(plan[1], proc[1]) = 0
        BY <3>1 DEF Put
      <3>5. SubSeq(Told(plan[1]), 1, 0) = <<>>
        BY ONLY <3>2, WholePart
      <3> QED
        BY ONLY <3>2, <3>3, <3>4, <3>5
    <2> PICK r : r = After(cmds, from)[1]
      OBVIOUS
    <2>7. r.files = from.files /\ r.flow = c.program.text
      <3>1. r \in Meanings /\ AfterParts(cmds, from, 1) /\ cmds[1] = c
        <4>1. 1 \in 0 .. Len(cmds)
          BY <2>2
        <4>2. After(cmds, from) \in [0 .. Len(cmds) -> Meanings]
          BY <2>2, AfterIs
        <4>3. AfterParts(cmds, from, 1)
          BY <2>2, <4>1, AfterAll
        <4> QED
          BY <1>3, <4>1, <4>2, <4>3
      <3>1a. cmds[1].out = NoFile /\ AfterParts(cmds, from, 1)
        BY ONLY <1>1, <3>1
      <3>2. r.flow = c.program.text
        <4>1. r.flow = Told(PlanOf(cmds, from)[1])
          BY ONLY <3>1a, r = After(cmds, from)[1] DEF AfterParts
        <4> QED
          BY ONLY <2>4, <4>1, plan = PlanOf(cmds, from)
      <3>3. \A f \in Names : r.files[f] = from.files[f]
        <4>1. \A j \in 1 .. 1 : cmds[j].out = NoFile
          BY ONLY <3>1a
        <4> QED
          BY ONLY <3>1a, <4>1, r = After(cmds, from)[1] DEF AfterParts
      <3> QED
        BY <2>2, <3>1, <3>2, <3>3 DEF Meanings, Befores
    <2>8. Meaning(cmds, from) = [files |-> from.files, shown |-> from.shown \o c.program.text]
      BY ONLY <2>2, <2>7, r = After(cmds, from)[1] DEF Meaning
    <2>9. [files |-> files', shown |-> shown'] = Meaning(cmds, from)
      BY ONLY <1>1, <2>5, <2>6, <2>8
    <2>10. line' = cmds /\ before' = from
      BY <1>1
    <2> QED
      BY ONLY <2>9, <2>10 DEF PipelineComposes
  <1> QED
    BY <1>1, <1>4, <1>5, <1>6 DEF ShellInv

LEMMA ShellInvInit == Init => ShellInv
  <1> SUFFICES ASSUME Init PROVE ShellInv
    OBVIOUS
  <1>1. /\ script \in Scripts /\ line = <<>> /\ pc = "prompt" /\ files = FileSystem /\ shown = <<>>
        /\ before = [files |-> FileSystem, shown |-> <<>>]
        /\ proc = [i \in Stages |-> Nothing] /\ pipe = [j \in Pipes |-> <<>>]
        /\ ends = [p \in {Parent} \cup Stages |-> {}]
    BY DEF Init, NoPipeline
  <1>2. script \in Seq(ScriptLines)
    BY <1>1, ScriptsAreLines DEF ScriptLines
  <1>3. StageTypes
    BY <1>1, FilesHoldItems DEF StageTypes, Nothing
  <1>4. before \in Befores
    BY <1>1, FilesHoldItems DEF Befores
  <1>5. \A i \in Stages : proc[i].state = "none"
    BY <1>1 DEF Nothing
  <1> QED
    BY <1>1, <1>2, <1>3, <1>4, <1>5 DEF ShellInv, ShellTypes, PipelineComposes

LEMMA ShellInvStep == ShellInv /\ [Next]_vars => ShellInv'
  <1> SUFFICES ASSUME ShellInv, [Next]_vars PROVE ShellInv'
    OBVIOUS
  <1>0. StageTypes
    BY DEF ShellInv, ShellTypes
  <1>1. CASE EndOfInput
    <2>1. UNCHANGED << script, line, before, proc, pipe, ends, files, shown >> /\ pc' = "left"
      BY <1>1 DEF EndOfInput, shell, stageVars
    <2> QED
      BY <2>1 DEF ShellInv, ShellTypes, StageTypes
  <1>2. CASE SkipLine
    <2>1. UNCHANGED << line, before, proc, pipe, ends, files, shown >> /\ pc' = "prompt" /\ pc = "prompt"
          /\ script # <<>> /\ script' = Tail(script)
      BY <1>2 DEF SkipLine, stageVars
    <2>2. script' \in Seq(ScriptLines)
      BY <2>1 DEF ShellInv, ShellTypes
    <2>3. StageTypes'
      BY <1>0, <2>1 DEF StageTypes
    <2> QED
      BY <2>1, <2>2, <2>3 DEF ShellInv, ShellTypes, PipelineComposes
  <1>3. CASE ReadLine
    BY <1>3, ShellReads
  <1>4. CASE OpenFails
    <2>1. UNCHANGED << shell, files >> /\ Die("failed") /\ files' \in [Names -> Seq(Items)]
      BY <1>0, <1>4 DEF OpenFails, StageTypes
    <2> QED
      BY <2>1, ShellDies
  <1>5. CASE Crash
    <2>1. UNCHANGED shell /\ Die("crashed") /\ files' = Opened(cmd) /\ pc = "starting" /\ at <= Len(line)
      BY <1>5 DEF Crash, Ready
    <2>2. cmd \in Commands
      BY <2>1 DEF ShellInv, ShellTypes, Begins, CommandLines, cmd
    <2>3. files' \in [Names -> Seq(Items)]
      BY <1>0, <2>1, <2>2, OpenedIs
    <2> QED
      BY <2>1, <2>3, ShellDies
  <1>6. CASE RunHere
    BY <1>6, ShellRunsHere
  <1>7. CASE Fork
    BY <1>7, ShellForks
  <1>8. CASE ClosePipes
    BY <1>8, ShellCloses
  <1>9. CASE Wait
    BY <1>9, ShellWaits
  <1>10. ASSUME NEW i \in Stages, Child(i) PROVE ShellInv'
    BY <1>10, ShellSetUp, ShellWork DEF Child
  <1>11. CASE UNCHANGED vars
    <2>1. UNCHANGED << script, line, before, at, pc, proc, pipe, ends, files, shown, stageVars >>
      BY <1>11 DEF vars, stageVars
    <2>2. ShellTypes'
      BY <2>1 DEF ShellInv, ShellTypes, StageTypes
    <2>3. Begins' = Begins /\ Goes' = Goes /\ PipelineComposes' = PipelineComposes
      BY <2>1 DEF Begins, Goes, Over, PipelineComposes
    <2>4. OnTheWay => OnTheWay'
      <3> SUFFICES ASSUME OnTheWay, NEW plan, NEW from, from = before, plan = PlanOf(line, from)
                   PROVE  Net(plan)' /\ Untouched(plan, from)'
        BY <2>1 DEF OnTheWay
      <3>1. Net(plan) /\ Untouched(plan, from)
        BY DEF OnTheWay
      <3>2. Net(plan)'
        BY <2>1, <3>1, NetStays
      <3> QED
        BY <2>1, <3>1, <3>2 DEF Untouched
    <2> QED
      BY <2>1, <2>2, <2>3, <2>4 DEF ShellInv
  <1> QED
    BY <1>1, <1>2, <1>3, <1>4, <1>5, <1>6, <1>7, <1>8, <1>9, <1>10, <1>11 DEF Next, Shell
=============================================================================
