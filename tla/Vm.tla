--------------------------------- MODULE Vm ---------------------------------
(***************************************************************************)
(* Pages and address spaces: the page allocator (kalloc.c), page tables    *)
(* (vm.c), and the calls that make, change and drop them: fork, growproc   *)
(* and wait (proc.c), exec (exec.c) and the argument checks (syscall.c).   *)
(*                                                                         *)
(* An address space is a record: the page directory, the page of the       *)
(* kernel's mappings (one stands for all), the pages that hold page        *)
(* tables, and the user pages.  A page table or user page of 0 is absent.  *)
(* Every step allocates for at most one user page, so calls of different   *)
(* processes interleave and memory may run out at any point; a step that   *)
(* only frees pages is taken at once.  Which free page kalloc gives is     *)
(* left out: it gives the first.  A page has one value.                    *)
(*                                                                         *)
(* Panics are not steps: CopyFindsPages says that those of copyuvm are not *)
(* reached.                                                                *)
(* A definition named X_Y is X with the fault Y put in; it is used only to *)
(* see that the properties notice.                                         *)
(***************************************************************************)
EXTENDS Integers, Sequences, FiniteSets

CONSTANTS
    NPROC,
    PHYSTOP,    \* number of pages
    NPDE,       \* page tables of the user part
    NPTE,       \* pages that one of them maps
    PGSIZE,
    Images,     \* what exec may load: for each segment, the address where it ends
    Deltas,     \* what sbrk may be called with
    MaxCalls    \* bound: the number of calls and stores

AllProcs == 1..NPROC
Pages == 1..PHYSTOP
Vpns == 0..(NPDE * NPTE - 1)
KERNBASE == NPDE * NPTE * PGSIZE

VARIABLES
    free,       \* kmem.freelist
    taken,      \* pages that other parts of the kernel hold (pipes)
    data,       \* the value of each page
    state, kstack, sz,
    space,      \* pgdir of each process
    new,        \* the address space that a process is making in fork or exec
    at,         \* a call in progress
    calls,      \* bound: calls and stores made
    mem         \* history: what the program of a process has put in its pages

vars == <<free, taken, data, state, kstack, sz, space, new, at, calls, mem>>

Absent == [pa |-> 0, u |-> FALSE]
NoSpace == [root |-> 0, kern |-> 0, tab |-> [d \in 0..(NPDE - 1) |-> 0],
            pte |-> [v \in Vpns |-> Absent]]
User == [pc |-> "user", to |-> "", a |-> 0, old |-> 0, end |-> 0, segs |-> <<>>, np |-> 0]

\* Values: zeroes, the junk of kfree, what exec loads, its arguments; p is what process p stores.
Zeroes == 0
Junk == -1
Text == -2
Args == -3

PDX(v) == v \div NPTE
PGROUNDUP(n) == ((n + PGSIZE - 1) \div PGSIZE) * PGSIZE
Vpn(a) == a \div PGSIZE
VpnsBelow(n) == {v \in Vpns : v * PGSIZE < n}

PagesOf(s) ==
    ({s.root, s.kern} \cup {s.tab[d] : d \in 0..(NPDE - 1)} \cup {s.pte[v].pa : v \in Vpns}) \ {0}

-----------------------------------------------------------------------------
\* kalloc
First(f) == CHOOSE pg \in f : \A other \in f : pg <= other

\* kfree fills the pages with junk.
kfree(pages) ==
    /\ free' = free \cup pages
    /\ data' = [pg \in Pages |-> IF pg \in pages THEN Junk ELSE data[pg]]

\* userinit: one page, and inituvm.  Pipes may have taken some of the others.
InitSpace == [root |-> 2, kern |-> 3, tab |-> [d \in 0..(NPDE - 1) |-> IF d = 0 THEN 4 ELSE 0],
              pte |-> [v \in Vpns |-> IF v = 0 THEN [pa |-> 5, u |-> TRUE] ELSE Absent]]

Init ==
    /\ \E n \in 5..PHYSTOP : taken = (n + 1)..PHYSTOP
    /\ free = Pages \ (taken \cup 1..5)
    /\ data = [pg \in Pages |-> IF pg = 5 THEN Text ELSE Junk]
    /\ state = [p \in AllProcs |-> IF p = 1 THEN "run" ELSE "unused"]
    /\ kstack = [p \in AllProcs |-> IF p = 1 THEN 1 ELSE 0]
    /\ sz = [p \in AllProcs |-> IF p = 1 THEN PGSIZE ELSE 0]
    /\ space = [p \in AllProcs |-> IF p = 1 THEN InitSpace ELSE NoSpace]
    /\ new = [p \in AllProcs |-> NoSpace]
    /\ at = [p \in AllProcs |-> User] /\ calls = 0
    /\ mem = [p \in AllProcs |-> [v \in Vpns |-> [val |-> Text, u |-> v = 0]]]

OutOfCall(p) == state[p] = "run" /\ at[p].pc = "user"

\* The program has a page to run in; without one, its next instruction faults.
CanRun(p) == \E v \in Vpns : space[p].pte[v].pa # 0 /\ space[p].pte[v].u

InUser(p) == OutOfCall(p) /\ CanRun(p)

Calls(p) == InUser(p) /\ calls < MaxCalls /\ calls' = calls + 1

-----------------------------------------------------------------------------
(***************************************************************************)
(* vm.c                                                                    *)
(***************************************************************************)
\* kalloc, then mappages of page v; the result is the space and the pages left.
Mapped1(s, v, u) ==
    LET pg == First(free)
        rest == free \ {pg}
        tab == s.tab[PDX(v)]
        t == IF tab = 0 THEN First(rest) ELSE tab
    IN  [space |-> [s EXCEPT !.tab[PDX(v)] = t, !.pte[v] = [pa |-> pg, u |-> u]],
         free |-> rest \ {t},
         pg |-> pg]

\* There is no page, or none for the page table that it needs.
MapFails(s, v) == Cardinality(free) < (IF s.tab[PDX(v)] = 0 THEN 2 ELSE 1)

\* The pages that deallocuvm frees, where they are present.
Dropped(oldsz, newsz) == {v \in Vpns : v * PGSIZE >= PGROUNDUP(newsz) /\ v * PGSIZE < oldsz}

\* deallocuvm: the space without them, and their pages.
Shrunk(s, oldsz, newsz) ==
    [s EXCEPT !.pte = [v \in Vpns |-> IF v \in Dropped(oldsz, newsz) THEN Absent ELSE @[v]]]

Released(s, oldsz, newsz) == {s.pte[v].pa : v \in Dropped(oldsz, newsz)} \ {0}

freevm_KeepsTables(s) == ({s.root, s.kern} \cup {s.pte[v].pa : v \in Vpns}) \ {0}

\* freevm: deallocuvm, the page tables, and the page directory.
freevm(s) == PagesOf(s)

Returns(p) == at' = [at EXCEPT ![p] = User]

-----------------------------------------------------------------------------

\* bad: of exec, and the error return of fork, which drops the kernel stack too.
Undone(p) ==
    freevm(new[p]) \cup (IF at[p].np = 0 THEN {} ELSE {kstack[at[p].np]})

Fails(p) ==
    LET np == at[p].np IN
    /\ kfree(Undone(p))
    /\ new' = [new EXCEPT ![p] = NoSpace]
    /\ Returns(p)
    /\ IF np = 0 THEN UNCHANGED <<state, kstack>>
       ELSE /\ state' = [state EXCEPT ![np] = "unused"]
            /\ kstack' = [kstack EXCEPT ![np] = 0]
    /\ UNCHANGED <<taken, sz, space, mem, calls>>

\* allocproc: an unused slot, and its kernel stack.
fork(p, np) ==
    /\ Calls(p) /\ state[np] = "unused" /\ free # {}
    /\ state' = [state EXCEPT ![np] = "embryo"]
    /\ kstack' = [kstack EXCEPT ![np] = First(free)]
    /\ free' = free \ {First(free)}
    /\ at' = [at EXCEPT ![p] = [User EXCEPT !.pc = "setup", !.to = "copy", !.np = np]]
    /\ UNCHANGED <<taken, data, sz, space, new, mem>>

exec(p, segs) ==
    /\ Calls(p)
    /\ at' = [at EXCEPT ![p] = [User EXCEPT !.pc = "setup", !.to = "segment", !.segs = segs]]
    /\ UNCHANGED <<free, taken, data, state, kstack, sz, space, new, mem>>

\* The page directory, then the kernel's page tables.
setupkvm(p) ==
    /\ at[p].pc = "setup"
    /\ \/ free = {} /\ Fails(p)
       \/ /\ free # {}
          /\ free' = free \ {First(free)}
          /\ \/ /\ new[p].root = 0
                /\ new' = [new EXCEPT ![p].root = First(free)]
                /\ UNCHANGED at
             \/ /\ new[p].root # 0
                /\ new' = [new EXCEPT ![p].kern = First(free)]
                /\ at' = [at EXCEPT ![p].pc = at[p].to]
          /\ UNCHANGED <<taken, data, state, kstack, sz, space, mem, calls>>

Copied_Accessible(pte) == TRUE

\* PTE_FLAGS: the copy is accessible where the original is.
Copied(pte) == pte.u

\* One page of copyuvm; then the rest of fork.
copyuvm(p) ==
    LET v == Vpn(at[p].a)  pte == space[p].pte[v]  m == Mapped1(new[p], v, Copied(pte)) IN
    /\ at[p].pc = "copy" /\ at[p].a < sz[p]
    /\ pte.pa # 0
    /\ \/ MapFails(new[p], v) /\ Fails(p)
       \/ /\ ~ MapFails(new[p], v)
          /\ free' = m.free
          /\ data' = [data EXCEPT ![m.pg] = data[pte.pa]]
          /\ new' = [new EXCEPT ![p] = m.space]
          /\ at' = [at EXCEPT ![p].a = @ + PGSIZE]
          /\ UNCHANGED <<taken, state, kstack, sz, space, mem, calls>>

ForkDone(p) ==
    LET np == at[p].np IN
    /\ at[p].pc = "copy" /\ at[p].a >= sz[p]
    /\ space' = [space EXCEPT ![np] = new[p]]
    /\ new' = [new EXCEPT ![p] = NoSpace]
    /\ sz' = [sz EXCEPT ![np] = sz[p]]
    /\ state' = [state EXCEPT ![np] = "run"]
    /\ mem' = [mem EXCEPT ![np] = mem[p]]
    /\ Returns(p)
    /\ UNCHANGED <<free, taken, data, kstack, calls>>

-----------------------------------------------------------------------------
(***************************************************************************)
(* allocuvm, in growproc and in exec                                       *)
(***************************************************************************)
\* allocuvm from oldsz to newsz, of which the first tests are done.
Grow(p, to, oldsz, newsz) ==
    at' = [at EXCEPT ![p].pc = "grow", ![p].to = to, ![p].a = PGROUNDUP(oldsz),
                     ![p].old = oldsz, ![p].end = newsz]

\* allocuvm refuses a size of KERNBASE or more.
Fits(newsz) == newsz < KERNBASE

\* growproc with n > 0.
sbrk(p, n) ==
    /\ Calls(p) /\ n > 0 /\ Fits(sz[p] + n)
    /\ Grow(p, "sbrk", sz[p], sz[p] + n)
    /\ UNCHANGED <<free, taken, data, state, kstack, sz, space, new, mem>>

\* growproc with n < 0.  Below 0 the size wraps, and deallocuvm does nothing; a size of 0
\* is taken for an error after the pages are gone.
Shrink(p, n) ==
    LET newsz == sz[p] + n IN
    /\ Calls(p) /\ n < 0 /\ newsz >= 0
    /\ kfree(Released(space[p], sz[p], newsz))
    /\ space' = [space EXCEPT ![p] = Shrunk(space[p], sz[p], newsz)]
    /\ sz' = IF newsz = 0 THEN sz ELSE [sz EXCEPT ![p] = newsz]
    /\ UNCHANGED <<taken, state, kstack, new, at, mem>>

Target(p) == IF at[p].to = "sbrk" THEN space[p] ELSE new[p]

\* memset(mem, 0, PGSIZE)
Cleaned(pg) == Zeroes

\* deallocuvm when allocuvm fails; exec goes on to bad.
GrowFails(p) ==
    LET s == Target(p)  a == at[p] IN
    \/ /\ a.to = "sbrk"
       /\ kfree(Released(s, a.end, a.old))
       /\ space' = [space EXCEPT ![p] = Shrunk(s, a.end, a.old)]
       /\ Returns(p)
       /\ UNCHANGED <<taken, state, kstack, sz, new, mem, calls>>
    \/ a.to # "sbrk" /\ Fails(p)

\* One page.
allocuvm(p) ==
    LET v == Vpn(at[p].a)  m == Mapped1(Target(p), v, TRUE) IN
    /\ at[p].pc = "grow" /\ at[p].a < at[p].end
    /\ \/ MapFails(Target(p), v) /\ GrowFails(p)
       \/ /\ ~ MapFails(Target(p), v)
          /\ free' = m.free
          /\ data' = [data EXCEPT ![m.pg] = Cleaned(m.pg)]
          /\ space' = IF at[p].to = "sbrk" THEN [space EXCEPT ![p] = m.space] ELSE space
          /\ new' = IF at[p].to = "sbrk" THEN new ELSE [new EXCEPT ![p] = m.space]
          /\ at' = [at EXCEPT ![p].a = @ + PGSIZE]
          /\ UNCHANGED <<taken, state, kstack, sz, mem, calls>>

Grown(p, to) == at[p].pc = "grow" /\ at[p].a >= at[p].end /\ at[p].to = to

\* The rest of growproc.
SbrkDone(p) ==
    LET a == at[p] IN
    /\ Grown(p, "sbrk")
    /\ sz' = [sz EXCEPT ![p] = a.end]
    /\ mem' = [mem EXCEPT ![p] = [v \in Vpns |->
                  IF v \in Dropped(a.end, a.old) THEN [val |-> Zeroes, u |-> TRUE] ELSE @[v]]]
    /\ Returns(p)
    /\ UNCHANGED <<free, taken, data, state, kstack, space, new, calls>>

\* The next segment of exec, or its two pages for the stack.
Segment(p) ==
    LET a == at[p]
        stack == a.segs = <<>>
        old == IF stack THEN PGROUNDUP(a.old) ELSE a.old
        end == IF stack THEN old + 2 * PGSIZE ELSE Head(a.segs)
        refused == ~ Fits(end) \/ (end = 0 /\ old = 0)
    IN
    /\ a.pc = "segment"
    /\ \/ refused /\ Fails(p)
       \/ /\ ~ refused
          /\ Grow(p, IF stack THEN "stack" ELSE "segment", old, IF end < old THEN old ELSE end)
          /\ UNCHANGED <<free, taken, data, state, kstack, sz, space, new, mem, calls>>

\* The segment has an address and a file that suit, or not.
loaduvm(p) ==
    LET a == at[p]  pages == {new[p].pte[v].pa : v \in Dropped(a.end, a.old)} IN
    /\ Grown(p, "segment")
    /\ \/ Fails(p)
       \/ /\ data' = [pg \in Pages |-> IF pg \in pages THEN Text ELSE data[pg]]
          /\ at' = [at EXCEPT ![p].pc = "segment", ![p].old = a.end, ![p].segs = Tail(@)]
          /\ UNCHANGED <<free, taken, state, kstack, sz, space, new, mem, calls>>

\* clearpteu
Guarded(s, v) == [s EXCEPT !.pte[v].u = FALSE]

\* The arguments fit on the stack, and the process has the new image; or copyout
\* comes to the page below the stack.
ExecDone(p) ==
    LET end == at[p].end
        guard == Vpn(end) - 2  stack == Vpn(end) - 1
        s == Guarded(new[p], guard)
        old == freevm(space[p])
    IN
    /\ Grown(p, "stack")
    /\ \/ Fails(p)
       \/ /\ free' = free \cup old
          /\ data' = [pg \in Pages |-> IF pg \in old THEN Junk
                                       ELSE IF pg = s.pte[stack].pa THEN Args ELSE data[pg]]
          /\ space' = [space EXCEPT ![p] = s]
          /\ new' = [new EXCEPT ![p] = NoSpace]
          /\ sz' = [sz EXCEPT ![p] = end]
          /\ mem' = [mem EXCEPT ![p] = [v \in Vpns |->
                        [val |-> IF v < guard THEN Text ELSE IF v = stack THEN Args ELSE Zeroes,
                         u |-> v # guard]]]
          /\ Returns(p)
          /\ UNCHANGED <<taken, state, kstack, calls>>

-----------------------------------------------------------------------------
\* exit, or the page fault for which trap kills a program that has no page to run in.
exit(p) ==
    /\ p # 1
    /\ \/ Calls(p)
       \/ OutOfCall(p) /\ ~ CanRun(p) /\ UNCHANGED calls
    /\ state' = [state EXCEPT ![p] = "zombie"]
    /\ UNCHANGED <<free, taken, data, kstack, sz, space, new, at, mem>>

\* q finds the zombie p.
wait(q, p) ==
    /\ InUser(q) /\ state[p] = "zombie"
    /\ kfree({kstack[p]} \cup freevm(space[p]))
    /\ kstack' = [kstack EXCEPT ![p] = 0]
    /\ space' = [space EXCEPT ![p] = NoSpace]
    /\ state' = [state EXCEPT ![p] = "unused"]
    /\ UNCHANGED <<taken, sz, new, at, mem, calls>>

\* The program stores to a page that it may use.
Store(p, v) ==
    LET pte == space[p].pte[v] IN
    /\ Calls(p) /\ pte.pa # 0 /\ pte.u
    /\ data' = [data EXCEPT ![pte.pa] = p]
    /\ mem' = [mem EXCEPT ![p][v].val = p]
    /\ UNCHANGED <<free, taken, state, kstack, sz, space, new, at>>

\* argptr (and fetchint with n = 4, fetchstr with the length of the string): is the
\* pointer a to n bytes accepted?
argptr(p, a, n) == n >= 0 /\ a < sz[p] /\ a + n <= sz[p]

Next ==
    \/ \E p, q \in AllProcs : fork(p, q) \/ wait(p, q)
    \/ \E p \in AllProcs, segs \in Images : exec(p, segs)
    \/ \E p \in AllProcs, n \in Deltas : sbrk(p, n) \/ Shrink(p, n)
    \/ \E p \in AllProcs : setupkvm(p) \/ copyuvm(p) \/ ForkDone(p) \/ allocuvm(p) \/ SbrkDone(p)
                            \/ Segment(p) \/ loaduvm(p) \/ ExecDone(p) \/ exit(p)
    \/ \E p \in AllProcs, v \in Vpns : Store(p, v)

Spec == Init /\ [][Next]_vars

-----------------------------------------------------------------------------
(***************************************************************************)
(* Properties                                                              *)
(***************************************************************************)
\* Pages and sizes are in range.
TypeOK ==
    LET P0 == Pages \cup {0}
        Space == [root : P0, kern : P0, tab : [0..(NPDE - 1) -> P0],
                  pte : [Vpns -> [pa : P0, u : BOOLEAN]]]
    IN  /\ free \subseteq Pages /\ taken \subseteq Pages
        /\ data \in [Pages -> {Zeroes, Junk, Text, Args} \cup AllProcs]
        /\ state \in [AllProcs -> {"unused", "embryo", "run", "zombie"}]
        /\ kstack \in [AllProcs -> P0] /\ sz \in [AllProcs -> 0..(KERNBASE - 1)]
        /\ \A p \in AllProcs : space[p] \in Space /\ new[p] \in Space

\* The places where pages are held: in an address space, and in a process.
Held(s) == <<s.root, s.kern>> \o [d \in 1..NPDE |-> s.tab[d - 1]]
               \o [v \in 1..(NPDE * NPTE) |-> s.pte[v - 1].pa]

HeldBy(p) == <<kstack[p]>> \o Held(space[p]) \o Held(new[p])

\* Every page is on the free list, or is held in exactly one place: no error path of
\* fork, exec or growproc loses a page, frees one twice, or frees one in use.
PagesOwnedOnce ==
    LET held == [p \in AllProcs |-> HeldBy(p)]
        inUse == {<<p, k>> \in AllProcs \X DOMAIN held[1] : held[p][k] # 0}
        pages == {held[pk[1]][pk[2]] : pk \in inUse}
    IN  /\ pages = Pages \ (free \cup taken)
        /\ Cardinality(inUse) = Cardinality(pages)

\* A process that runs in user mode has exactly the pages of its size, whatever failed before:
\* no address that is refused can be used.  sbrk to size 0, which leaves sz as it was, is no
\* exception, for no program runs after it.
Mapped == \A p \in AllProcs : InUser(p) =>
              \A v \in Vpns : space[p].pte[v].pa # 0 <=> v \in VpnsBelow(sz[p])

\* The memory of a process is what its own program has put there, with the page below its
\* stack out of reach: fork copies it, sbrk gives zeroes, exec the program and its
\* arguments, and nobody else can change it.
Private ==
    \A p \in AllProcs : InUser(p) => \A v \in VpnsBelow(sz[p]) :
        LET pte == space[p].pte[v]
        IN  pte.pa # 0 => data[pte.pa] = mem[p][v].val /\ (pte.u <=> mem[p][v].u)

\* A pointer that the argument checks accept leads to pages of the process only: a system
\* call never faults, nor reads or writes what another process holds.
ArgsMapped ==
    \A p \in AllProcs, a, n \in 0..KERNBASE :
        InUser(p) /\ argptr(p, a, n) =>
            \A v \in Vpn(a)..Vpn(a + n - 1) : v \in Vpns /\ space[p].pte[v].pa # 0

\* The panics of copyuvm: every page below the size of the process is there when fork comes
\* to it.
CopyFindsPages ==
    \A p \in AllProcs : at[p].pc = "copy" /\ at[p].a < sz[p] => space[p].pte[Vpn(at[p].a)].pa # 0
=============================================================================
