--------------------------- MODULE IndexerProofs ---------------------------
(***************************************************************************)
(* Whatever the number of workers, reindexes, failing calls and crashes,   *)
(* the live alias never loses the index behind it. Without failing calls   *)
(* and crashes reindexes leave no index behind, and one worker keeps the   *)
(* search index current.                                                   *)
(***************************************************************************)
EXTENDS ElasticsearchIndexer, Sums, SequenceTheorems, TLAPS

\* The counters and the fields of a job that the argument looks at.
Fields == {"pc", "kind", "index", "original"}

Shape ==
    /\ made \in Nat
    /\ \A i \in fresh \cup served : i \in Nat
    /\ DOMAIN job = Workers
    /\ \A w \in Workers :
          /\ Fields \subseteq DOMAIN job[w]
          /\ job[w].index \in Nat
          /\ job[w].original \in Nat
          /\ job[w].pc \in {"find", "erase"} => job[w].kind # "reindex"
          /\ job[w].pc \in {"create", "page", "resolve", "replace", "swap", "drop", "cleanup"} =>
                job[w].kind = "reindex"
          /\ job[w].pc \notin {"swap", "drop", "cleanup"} => job[w].original = 0

IInv == Shape /\ SwitchInv

\* The idle state holds no index.
LEMMA IdleJob ==
    /\ Fields \subseteq DOMAIN Idle
    /\ Idle.pc = "idle" /\ Idle.kind = "none" /\ Idle.index = 0 /\ Idle.original = 0
BY DEF Idle, Fields

\* When a reindex is done with a product it goes on with the same index.
LEMMA AfterProductOfReindex ==
    ASSUME NEW j, Fields \subseteq DOMAIN j, j.kind = "reindex"
    PROVE  /\ Fields \subseteq DOMAIN AfterProduct(j)
           /\ AfterProduct(j).pc \in {"load", "page", "resolve"}
           /\ AfterProduct(j).kind = "reindex"
           /\ AfterProduct(j).index = j.index
           /\ AfterProduct(j).original = j.original
<1>1. CASE j.todo # <<>>
  BY <1>1 DEF AfterProduct, Fields
<1>2. CASE j.todo = <<>>
  BY <1>2 DEF AfterProduct, Fields
<1> QED BY <1>1, <1>2

\* Any other job is over.
LEMMA AfterProductOfUpdate ==
    ASSUME NEW j, j.kind # "reindex"
    PROVE  AfterProduct(j) = Idle
BY DEF AfterProduct

-----------------------------------------------------------------------------
\* Most steps only move one worker's job on, and the job keeps the index it
\* builds. j is the job after such a step of worker w.
Quiet(w, j) ==
    /\ Fields \subseteq DOMAIN j
    /\ j.index \in Nat
    /\ j.original \in Nat
    /\ j.pc \in {"find", "erase"} => j.kind # "reindex"
    /\ j.pc \in {"create", "page", "resolve", "replace", "swap", "drop", "cleanup"} =>
          j.kind = "reindex"
    /\ j.pc \notin {"swap", "drop", "cleanup"} => j.original = 0
    /\ j.kind = "reindex" /\ j.pc # "create" => Owner(w) /\ j.index = job[w].index
    /\ j.kind = "reindex" /\ j.pc \notin {"create", "cleanup"} => Building(w)
    /\ j.pc = "swap" => j.original \in served \cup {0}
    /\ j.pc # "drop"

\* The live name stays what it is, or becomes that of an index or nobody's.
Named == served' = served \/ served' = {0} \/ served' = {}

\* Such a step keeps the invariant.
LEMMA QuietStep ==
    ASSUME IInv, NEW w \in Workers, NEW j, Quiet(w, j), To(w, j),
           Named, UNCHANGED <<fresh, made>>
    PROVE  IInv'
<1>0. made \in Nat /\ (\A i \in served' : i \in served \cup {0})
  BY DEF IInv, Shape, Named
<1>1. job'[w] = j /\ \A v \in Workers \ {w} : job'[v] = job[v]
  BY DEF IInv, Shape, To
<1>2. DOMAIN job' = Workers
  BY DEF IInv, Shape, To
<1>3. Shape'
  BY <1>0, <1>1, <1>2 DEF IInv, Shape, Quiet
<1>4. \A v \in Workers : Owner(v)' => Owner(v) /\ job'[v].index = job[v].index
  BY <1>1 DEF Quiet, Owner, Building
<1>5. \A v \in Workers : Building(v)' => Building(v) /\ job'[v].index = job[v].index
  BY <1>1 DEF Quiet, Owner, Building
<1>6. \A v \in Workers : (job'[v].pc = "swap") =>
          job'[v].original <= made /\ job'[v].original \notin fresh
  BY <1>0, <1>1 DEF IInv, Shape, SwitchInv, Quiet
<1>7. \A v \in Workers : (job'[v].pc = "drop") =>
          job[v].pc = "drop" /\ job'[v].original = job[v].original
  BY <1>1 DEF Quiet
<1>8. SwitchInv'
  <2>1. (0 \notin fresh)' /\ (0 \in served => served = {0})'
    BY DEF IInv, SwitchInv, Named
  <2>7. (fresh \cap served = {})' /\ (\A i \in fresh \cup served : i <= made)'
    BY <1>0 DEF IInv, SwitchInv
  <2>2. (\A v \in Workers : Owner(v) => job[v].index <= made)'
    BY <1>4 DEF IInv, SwitchInv
  <2>3. (\A v \in Workers : Building(v) => job[v].index \in fresh)'
    BY <1>5 DEF IInv, SwitchInv
  <2>4. (\A u, v \in Workers : Owner(u) /\ Owner(v) /\ u # v => job[u].index # job[v].index)'
    BY <1>4 DEF IInv, SwitchInv
  <2>5. (\A v \in Workers : job[v].pc = "swap" =>
            job[v].original <= made /\ job[v].original \notin fresh)'
    BY <1>6
  <2>6. (\A v \in Workers : job[v].pc = "drop" =>
            /\ job[v].original <= made /\ job[v].original # 0
            /\ job[v].original \notin fresh \cup served)'
    BY <1>0, <1>7 DEF IInv, SwitchInv
  <2> QED BY <2>1, <2>2, <2>3, <2>4, <2>5, <2>6, <2>7 DEF SwitchInv
<1> QED BY <1>3, <1>8 DEF IInv

\* The steps of a job for a product, and the reading steps of a reindex.
LEMMA ReadingSteps ==
    ASSUME IInv, NEW w \in Workers,
           \/ Take(w) \/ Find(w) \/ Erase(w) \/ Load(w) \/ Write(w) \/ Page(w) \/ Resolve(w)
           \/ Replace(w)
    PROVE  IInv'
<1>1. Named /\ UNCHANGED <<fresh, made>>
  <2>1. CASE Take(w) \/ Find(w) \/ Erase(w) \/ Load(w) \/ Page(w) \/ Resolve(w)
    BY <2>1 DEF Take, Find, Erase, Load, Page, Resolve, indices, Bulk, Named
  <2>2. CASE Write(w)
    BY <2>2 DEF Write, MakesIndex, Named
  <2>3. CASE Replace(w)
    <3>1. CASE UNCHANGED <<served, fresh>>
      BY <2>3, <3>1 DEF Replace, Named
    <3>2. CASE 0 \in served /\ DeleteIndex(0)
      BY <2>3, <3>2 DEF Replace, DeleteIndex, Named, IInv, SwitchInv
    <3> QED BY <2>3, <3>1, <3>2 DEF Replace
  <2> QED BY <2>1, <2>2, <2>3
<1> SUFFICES \E j : Quiet(w, j) /\ To(w, j)
  BY <1>1, QuietStep
<1> USE IdleJob
<1>2. CASE Take(w)
  <2> DEFINE next == Head(queue)
             start == IF next.kind = "reindex" THEN "create" ELSE "find"
             j == [Idle EXCEPT !.pc = start, !.kind = next.kind,
                               !.product = next.product, !.ctx = next.ctx]
  <2>1. To(w, j)
    BY <1>2 DEF Take
  <2>2. /\ Fields \subseteq DOMAIN j /\ j.index = 0 /\ j.original = 0
        /\ j.pc = start /\ j.kind = next.kind
    BY DEF Fields, Idle
  <2> HIDE DEF j
  <2>3. Quiet(w, j)
    BY <2>2 DEF Quiet
  <2> QED BY <2>1, <2>3
<1>3. CASE Find(w)
  <2>1. job[w].kind # "reindex" /\ Fields \subseteq DOMAIN job[w]
    BY <1>3 DEF Find, IInv, Shape
  <2>2. PICK j : /\ To(w, j)
                 /\ j \in {[job[w] EXCEPT !.pc = "erase"], [job[w] EXCEPT !.pc = "load"], Idle}
    BY <1>3 DEF Find, AfterErase
  <2>3. Quiet(w, j)
    BY <2>1, <2>2 DEF Quiet, Fields, IInv, Shape
  <2> QED BY <2>2, <2>3
<1>4. CASE Erase(w)
  <2>1. job[w].kind # "reindex" /\ Fields \subseteq DOMAIN job[w]
    BY <1>4 DEF Erase, IInv, Shape
  <2>2. PICK j : To(w, j) /\ j \in {[job[w] EXCEPT !.pc = "load"], Idle}
    BY <1>4 DEF Erase, AfterErase
  <2>3. Quiet(w, j)
    BY <2>1, <2>2 DEF Quiet, Fields, IInv, Shape
  <2> QED BY <2>2, <2>3
<1>5. CASE Load(w)
  <2>1. Fields \subseteq DOMAIN job[w] /\ job[w].pc = "load"
    BY <1>5 DEF Load, IInv, Shape
  <2>2. Quiet(w, [job[w] EXCEPT !.pc = "write", !.read = db[job[w].product]])
    BY <2>1 DEF Quiet, Fields, IInv, Shape, Owner, Building
  <2>3. Quiet(w, AfterProduct(job[w]))
    BY <2>1, AfterProductOfReindex, AfterProductOfUpdate
       DEF Quiet, IInv, Shape, Owner, Building
  <2> QED BY <1>5, <2>2, <2>3 DEF Load
<1>6. CASE Write(w)
  <2> DEFINE read == [job[w] EXCEPT !.read = NoRow]
  <2>1. /\ Fields \subseteq DOMAIN read
        /\ read.kind = job[w].kind /\ read.index = job[w].index
        /\ read.original = job[w].original /\ job[w].pc = "write"
    BY <1>6 DEF Write, IInv, Shape, Fields
  <2>2. To(w, AfterProduct(read))
    BY <1>6 DEF Write
  <2> HIDE DEF read
  <2>3. Quiet(w, AfterProduct(read))
    BY <2>1, AfterProductOfReindex, AfterProductOfUpdate
       DEF Quiet, IInv, Shape, Owner, Building
  <2> QED BY <2>2, <2>3
<1>7. CASE Page(w)
  <2> DEFINE page == LivePage(job[w].skip)
             read == [job[w] EXCEPT !.todo = page, !.skip = @ + ChunkSize,
                                    !.full = Len(page) >= ChunkSize]
  <2>1. /\ Fields \subseteq DOMAIN read
        /\ read.kind = job[w].kind /\ read.index = job[w].index
        /\ read.original = job[w].original /\ job[w].pc = "page"
    BY <1>7 DEF Page, IInv, Shape, Fields
  <2>2. To(w, AfterProduct(read))
    BY <1>7 DEF Page
  <2> HIDE DEF read
  <2>3. Quiet(w, AfterProduct(read))
    BY <2>1, AfterProductOfReindex, AfterProductOfUpdate
       DEF Quiet, IInv, Shape, Owner, Building
  <2> QED BY <2>2, <2>3
<1>8. CASE Resolve(w)
  <2>1. PICK j : /\ To(w, j)
                 /\ \/ \E o \in served : j = [job[w] EXCEPT !.pc = "swap", !.original = o]
                    \/ j = [job[w] EXCEPT !.pc = "replace"]
                    \/ served = {} /\ j = [job[w] EXCEPT !.pc = "swap"]
    BY <1>8 DEF Resolve
  <2>2. job[w].pc = "resolve" /\ job[w].kind = "reindex" /\ job[w].original = 0
    BY <1>8 DEF Resolve, IInv, Shape
  <2>3. Quiet(w, j)
    BY <2>1, <2>2 DEF Quiet, Fields, IInv, Shape, Owner, Building
  <2> QED BY <2>1, <2>3
<1>9. CASE Replace(w)
  <2>1. job[w].pc = "replace" /\ job[w].kind = "reindex" /\ job[w].original = 0
    BY <1>9 DEF Replace, IInv, Shape
  <2>2. PICK j : /\ To(w, j)
                 /\ j \in {[job[w] EXCEPT !.pc = "swap"], [job[w] EXCEPT !.pc = "cleanup"]}
    BY <1>9 DEF Replace
  <2>3. Quiet(w, j)
    BY <2>1, <2>2 DEF Quiet, Fields, IInv, Shape, Owner, Building
  <2> QED BY <2>2, <2>3
<1> QED BY <1>2, <1>3, <1>4, <1>5, <1>6, <1>7, <1>8, <1>9

\* A crash and the failure to create an index end the job.
LEMMA EndingSteps ==
    ASSUME IInv, NEW w \in Workers, To(w, Idle), UNCHANGED <<served, fresh, made>>
    PROVE  IInv'
<1>1. Quiet(w, Idle)
  BY IdleJob DEF Quiet
<1> QED BY <1>1, QuietStep DEF Named

-----------------------------------------------------------------------------
\* A new index is nobody else's.
LEMMA CreateStep ==
    ASSUME IInv, NEW w \in Workers, CreateIndex(w)
    PROVE  IInv'
<1>1. CASE made' = made
  <2>1. To(w, Idle) /\ UNCHANGED <<served, fresh, made>>
    BY <1>1 DEF CreateIndex, IInv, Shape
  <2> QED BY <2>1, EndingSteps
<1>2. CASE made' # made
  <2> DEFINE j == [job[w] EXCEPT !.pc = "page", !.index = made + 1]
  <2>1. /\ made' = made + 1 /\ fresh' = fresh \cup {made + 1} /\ served' = served
        /\ job' = [job EXCEPT ![w] = j] /\ job[w].pc = "create"
    BY <1>2 DEF CreateIndex, To
  <2>2. PICK k : job' = [job EXCEPT ![w] = k] /\ k = j
    BY <2>1
  <2>3. /\ Fields \subseteq DOMAIN k /\ k.pc = "page" /\ k.index = made + 1
        /\ k.kind = job[w].kind /\ k.original = job[w].original
    BY <2>2 DEF IInv, Shape, Fields
  <2>4. /\ job'[w] = k /\ DOMAIN job' = Workers
        /\ \A v \in Workers \ {w} : job'[v] = job[v]
    BY <2>2 DEF IInv, Shape
  <2>5. job[w].kind = "reindex"
    BY <2>1 DEF IInv, Shape
  <2>6. Shape'
    BY <2>1, <2>3, <2>4, <2>5 DEF IInv, Shape
  <2>7. \A v \in Workers \ {w} : /\ Owner(v)' <=> Owner(v)
                                 /\ Building(v)' <=> Building(v)
    BY <2>4 DEF Owner, Building
  <2>8. Owner(w)' /\ Building(w)'
    BY <2>3, <2>4, <2>5 DEF Owner, Building
  <2>9. made \in Nat /\ \A i \in fresh \cup served : i <= made
    BY DEF IInv, Shape, SwitchInv
  <2>10. SwitchInv'
    <3>1. (0 \notin fresh)' /\ (0 \in served => served = {0})'
      BY <2>1, <2>9 DEF IInv, Shape, SwitchInv
    <3>7. (fresh \cap served = {})' /\ (\A i \in fresh \cup served : i <= made)'
      BY <2>1, <2>9 DEF IInv, Shape, SwitchInv
    <3>2. (\A v \in Workers : Owner(v) => job[v].index <= made)'
      BY <2>1, <2>3, <2>4, <2>7, <2>9 DEF IInv, Shape, SwitchInv
    <3>3. (\A v \in Workers : Building(v) => job[v].index \in fresh)'
      BY <2>1, <2>3, <2>4, <2>7 DEF IInv, SwitchInv
    <3>4. (\A u, v \in Workers : Owner(u) /\ Owner(v) /\ u # v => job[u].index # job[v].index)'
      BY <2>3, <2>4, <2>7, <2>9 DEF IInv, Shape, SwitchInv
    <3>5. (\A v \in Workers : job[v].pc = "swap" =>
              job[v].original <= made /\ job[v].original \notin fresh)'
      BY <2>1, <2>3, <2>4, <2>9 DEF IInv, Shape, SwitchInv
    <3>6. (\A v \in Workers : job[v].pc = "drop" =>
              /\ job[v].original <= made /\ job[v].original # 0
              /\ job[v].original \notin fresh \cup served)'
      BY <2>1, <2>3, <2>4, <2>9 DEF IInv, Shape, SwitchInv
    <3> QED BY <3>1, <3>2, <3>3, <3>4, <3>5, <3>6, <3>7 DEF SwitchInv
  <2> QED BY <2>6, <2>10 DEF IInv
<1> QED BY <1>1, <1>2

\* The index that goes live is nobody's original: none is about to be deleted.
LEMMA SwapStep ==
    ASSUME IInv, NEW w \in Workers, Swap(w)
    PROVE  IInv'
<1>1. job[w].pc = "swap" /\ job[w].kind = "reindex" /\ Fields \subseteq DOMAIN job[w]
  BY DEF Swap, SwapOr, IInv, Shape
<1>2. CASE UNCHANGED <<served, fresh>> /\ To(w, [job[w] EXCEPT !.pc = "cleanup"])
  <2>1. Quiet(w, [job[w] EXCEPT !.pc = "cleanup"])
    BY <1>1 DEF Quiet, Fields, IInv, Shape, Owner, Building
  <2>2. UNCHANGED made
    BY DEF Swap, SwapOr
  <2> QED BY <1>2, <2>1, <2>2, QuietStep DEF Named
<1>3. CASE /\ 0 \notin served
           /\ served' = (served \ {job[w].original}) \cup {job[w].index}
           /\ fresh' = fresh \ {job[w].index}
           /\ To(w, [job[w] EXCEPT !.pc = IF job[w].original = 0 THEN "cleanup" ELSE "drop"])
  <2>1. PICK k, pc : /\ job' = [job EXCEPT ![w] = k] /\ k = [job[w] EXCEPT !.pc = pc]
                     /\ pc = IF job[w].original = 0 THEN "cleanup" ELSE "drop"
    BY <1>3 DEF To
  <2>2. /\ Fields \subseteq DOMAIN k /\ k.pc = pc /\ k.index = job[w].index
        /\ k.kind = job[w].kind /\ k.original = job[w].original
        /\ pc \in {"drop", "cleanup"} /\ (pc = "drop" => k.original # 0)
    BY <1>1, <2>1 DEF Fields
  <2>3. /\ job'[w] = k /\ DOMAIN job' = Workers
        /\ \A v \in Workers \ {w} : job'[v] = job[v]
    BY <2>1 DEF IInv, Shape
  <2>4. made' = made /\ Owner(w) /\ Building(w)
    BY <1>1 DEF Swap, SwapOr, Owner, Building
  <2>5. /\ job[w].index \in fresh /\ job[w].original \notin fresh
        /\ job[w].original <= made /\ job[w].index <= made
    BY <1>1, <2>4 DEF IInv, SwitchInv
  <2>6. Shape'
    BY <1>1, <1>3, <2>2, <2>3, <2>4 DEF IInv, Shape
  <2>7. \A v \in Workers \ {w} : /\ Owner(v)' <=> Owner(v)
                                 /\ Building(v)' <=> Building(v)
    BY <2>3 DEF Owner, Building
  <2>8. Owner(w)' /\ ~Building(w)'
    BY <1>1, <2>2, <2>3 DEF Owner, Building
  <2>9. SwitchInv'
    <3>1. (0 \notin fresh)' /\ (0 \in served => served = {0})'
      BY <1>3, <2>5 DEF IInv, SwitchInv
    <3>7. (fresh \cap served = {})' /\ (\A i \in fresh \cup served : i <= made)'
      BY <1>3, <2>4, <2>5 DEF IInv, SwitchInv
    <3>2. (\A v \in Workers : Owner(v) => job[v].index <= made)'
      BY <2>2, <2>3, <2>4, <2>5, <2>7 DEF IInv, SwitchInv
    <3>3. (\A v \in Workers : Building(v) => job[v].index \in fresh)'
      <4>1. \A v \in Workers \ {w} : Building(v) => job[v].index # job[w].index
        BY <2>4 DEF IInv, SwitchInv, Building
      <4> QED BY <1>3, <2>3, <2>7, <2>8, <4>1 DEF IInv, SwitchInv
    <3>4. (\A u, v \in Workers : Owner(u) /\ Owner(v) /\ u # v => job[u].index # job[v].index)'
      BY <2>2, <2>3, <2>4, <2>7 DEF IInv, SwitchInv
    <3>5. (\A v \in Workers : job[v].pc = "swap" =>
              job[v].original <= made /\ job[v].original \notin fresh)'
      BY <1>3, <2>2, <2>3, <2>4 DEF IInv, SwitchInv
    <3>6. (\A v \in Workers : job[v].pc = "drop" =>
              /\ job[v].original <= made /\ job[v].original # 0
              /\ job[v].original \notin fresh \cup served)'
      BY <1>3, <2>2, <2>3, <2>4, <2>5 DEF IInv, SwitchInv
    <3> QED BY <3>1, <3>2, <3>3, <3>4, <3>5, <3>6, <3>7 DEF SwitchInv
  <2> QED BY <2>6, <2>9 DEF IInv
<1> QED BY <1>2, <1>3 DEF Swap, SwapOr

\* The original is neither live nor being built, so deleting it takes nothing.
LEMMA DropStep ==
    ASSUME IInv, NEW w \in Workers, DropOriginal(w)
    PROVE  IInv'
<1>1. job[w].pc = "drop" /\ job[w].kind = "reindex" /\ Fields \subseteq DOMAIN job[w]
  BY DEF DropOriginal, IInv, Shape
<1>2. job[w].original \notin fresh \cup served
  BY <1>1 DEF IInv, SwitchInv
<1>3. UNCHANGED <<served, fresh, made>>
  BY <1>2 DEF DropOriginal, DeleteIndex
<1>4. Quiet(w, [job[w] EXCEPT !.pc = "cleanup"])
  BY <1>1 DEF Quiet, Fields, IInv, Shape, Owner, Building
<1> QED BY <1>3, <1>4, QuietStep DEF DropOriginal, Named

\* Only an index that has not gone live is cleaned up, and only by its owner.
LEMMA CleanupStep ==
    ASSUME IInv, NEW w \in Workers, Cleanup(w)
    PROVE  IInv'
<1>1. To(w, Idle) /\ UNCHANGED made
  BY DEF Cleanup
<1>2. CASE UNCHANGED <<served, fresh>>
  BY <1>1, <1>2, EndingSteps
<1>3. CASE job[w].index \in fresh /\ DeleteIndex(job[w].index)
  <2>1. served' = served /\ fresh' = fresh \ {job[w].index}
    BY <1>3 DEF DeleteIndex, IInv, SwitchInv
  <2>2. /\ job'[w] = Idle /\ DOMAIN job' = Workers
        /\ \A v \in Workers \ {w} : job'[v] = job[v]
    BY <1>1 DEF To, IInv, Shape
  <2>3. Owner(w)
    BY DEF Cleanup, Owner, IInv, Shape
  <2>4. ~Owner(w)' /\ ~Building(w)'
    BY <2>2, IdleJob DEF Owner, Building
  <2>5. \A v \in Workers \ {w} : /\ Owner(v)' <=> Owner(v)
                                 /\ Building(v)' <=> Building(v)
    BY <2>2 DEF Owner, Building
  <2>6. Shape'
    BY <1>1, <2>1, <2>2, IdleJob DEF IInv, Shape
  <2>7. SwitchInv'
    <3>1. (0 \notin fresh)' /\ (0 \in served => served = {0})'
      BY <1>1, <2>1 DEF IInv, SwitchInv
    <3>7. (fresh \cap served = {})' /\ (\A i \in fresh \cup served : i <= made)'
      BY <1>1, <2>1 DEF IInv, SwitchInv
    <3>2. (\A v \in Workers : Owner(v) => job[v].index <= made)'
      BY <1>1, <2>2, <2>4, <2>5 DEF IInv, SwitchInv
    <3>3. (\A v \in Workers : Building(v) => job[v].index \in fresh)'
      <4>1. \A v \in Workers \ {w} : Building(v) => job[v].index # job[w].index
        BY <2>3 DEF IInv, SwitchInv, Building
      <4> QED BY <2>1, <2>2, <2>4, <2>5, <4>1 DEF IInv, SwitchInv
    <3>4. (\A u, v \in Workers : Owner(u) /\ Owner(v) /\ u # v => job[u].index # job[v].index)'
      BY <2>2, <2>4, <2>5 DEF IInv, SwitchInv
    <3>5. (\A v \in Workers : job[v].pc = "swap" =>
              job[v].original <= made /\ job[v].original \notin fresh)'
      BY <1>1, <2>1, <2>2, IdleJob DEF IInv, SwitchInv
    <3>6. (\A v \in Workers : job[v].pc = "drop" =>
              /\ job[v].original <= made /\ job[v].original # 0
              /\ job[v].original \notin fresh \cup served)'
      BY <1>1, <2>1, <2>2, IdleJob DEF IInv, SwitchInv
    <3> QED BY <3>1, <3>2, <3>3, <3>4, <3>5, <3>6, <3>7 DEF SwitchInv
  <2> QED BY <2>6, <2>7 DEF IInv
<1> QED BY <1>2, <1>3 DEF Cleanup

-----------------------------------------------------------------------------
\* At the start one index is live, or none, and no worker has a job.
LEMMA InitIInv == Init => IInv
<1> SUFFICES ASSUME Init PROVE IInv
  OBVIOUS
<1>1. /\ served \in {{1}, {0}, {}} /\ fresh = {} /\ made = 1
      /\ DOMAIN job = Workers /\ \A w \in Workers : job[w] = Idle
  BY DEF Init
<1>5. (\A i \in fresh \cup served : i \in Nat /\ i <= made) /\ made \in Nat
  <2>1. \A i \in fresh \cup served : i = 0 \/ i = 1
    BY <1>1
  <2> QED BY <1>1, <2>1
<1>6. 0 \notin fresh /\ (0 \in served => served = {0}) /\ fresh \cap served = {}
  BY <1>1
<1>2. Shape
  BY <1>1, <1>5, IdleJob DEF Shape
<1>3. \A w \in Workers : ~Owner(w) /\ ~Building(w) /\ job[w].pc = "idle"
  BY <1>1, IdleJob DEF Owner, Building
<1>4. SwitchInv
  BY <1>3, <1>5, <1>6 DEF SwitchInv
<1> QED BY <1>2, <1>4 DEF IInv

\* Every step keeps the invariant.
LEMMA NextIInv == IInv /\ [Next]_vars => IInv'
<1> SUFFICES ASSUME IInv, [Next]_vars PROVE IInv'
  OBVIOUS
<1>1. CASE UNCHANGED <<job, served, fresh, made>>
  <2>1. Shape'
    BY <1>1 DEF IInv, Shape
  <2>2. SwitchInv'
    BY <1>1 DEF IInv, SwitchInv, Owner, Building
  <2> QED BY <2>1, <2>2 DEF IInv
<1>2. CASE Admin
  <2>1. UNCHANGED <<job, served, fresh, made>>
    BY <1>2, ZenonT(60) DEF Admin, RequestReindex, CreateProduct, UpdateProduct, DeleteProduct,
                AssignProductToChannel, RemoveProductFromChannel, Change, indices
  <2> QED BY <1>1, <2>1
<1>3. ASSUME NEW w \in Workers, Step(w) PROVE IInv'
  BY <1>3, ReadingSteps, CreateStep, SwapStep, DropStep, CleanupStep DEF Step
<1>4. ASSUME NEW w \in Workers, Crash(w) PROVE IInv'
  BY <1>4, EndingSteps DEF Crash, indices
<1>5. CASE UNCHANGED vars
  BY <1>1, <1>5 DEF vars
<1> QED BY <1>2, <1>3, <1>4, <1>5 DEF Next

\* An index in the hands of a worker is not live and is deleted by that worker only;
\* what a worker is about to delete for having lost the alias is not live, and the
\* live name is an index's only when nothing is behind the alias (switchAlias).
THEOREM SwitchIsSafe == Spec => []SwitchInv
<1>1. IInv => SwitchInv
  BY DEF IInv
<1> QED BY InitIInv, NextIInv, <1>1, PTL DEF Spec

\* A step keeps the alias.
LEMMA AliasStep == IInv /\ [Next]_vars => [Aliased => Aliased']_vars
<1> SUFFICES ASSUME IInv, Next, Aliased PROVE Aliased'
  BY DEF vars, Aliased
<1>1. CASE UNCHANGED served
  BY <1>1 DEF Aliased
<1>2. CASE Admin
  <2>1. UNCHANGED served
    BY <1>2, ZenonT(60) DEF Admin, RequestReindex, CreateProduct, UpdateProduct, DeleteProduct,
                AssignProductToChannel, RemoveProductFromChannel, Change, indices
  <2> QED BY <1>1, <2>1
<1>3. ASSUME NEW w \in Workers, Step(w) PROVE Aliased'
  <2>1. CASE Swap(w)
    <3>1. job[w].index \in fresh /\ job[w].index # 0
      BY <2>1 DEF Swap, SwapOr, IInv, Shape, SwitchInv, Building, Owner
    <3> QED BY <2>1, <3>1 DEF Swap, SwapOr, Aliased
  <2>2. CASE DropOriginal(w)
    BY <2>2 DEF DropOriginal, DeleteIndex, Aliased, IInv, SwitchInv
  <2>3. CASE Cleanup(w)
    BY <2>3 DEF Cleanup, DeleteIndex, Aliased, IInv, SwitchInv
  <2>4. CASE Write(w) \/ Replace(w)
    BY <2>4 DEF Write, MakesIndex, Replace, Aliased
  <2>5. CASE Take(w) \/ Find(w) \/ Erase(w) \/ Load(w) \/ CreateIndex(w) \/ Page(w) \/ Resolve(w)
    <3>1. UNCHANGED served
      BY <2>5 DEF Take, Find, Erase, Load, CreateIndex, Page, Resolve, indices
    <3> QED BY <1>1, <3>1
  <2> QED BY <1>3, <2>1, <2>2, <2>3, <2>4, <2>5 DEF Step
<1>4. ASSUME NEW w \in Workers, Crash(w) PROVE Aliased'
  BY <1>1, <1>4 DEF Crash, indices
<1> QED BY <1>2, <1>3, <1>4 DEF Next

\* Once the live name is an alias it has an index behind it for good, so a search is
\* never answered by a missing index: for any number of overlapping reindexes, failing
\* calls of the backend and crashes of workers, and whatever the live name was at
\* first (reindex, switchAlias).
THEOREM StaysServed == Spec => AliasStays
<1> QED BY InitIInv, NextIInv, AliasStep, PTL DEF Spec, AliasStays

-----------------------------------------------------------------------------
\* The types. Requests wait in the queue, Contents is what an index holds.
Requests == [kind: {"update", "delete"}, product: Products, ctx: Channels] \cup {ReindexJob}
Contents == [Products -> [Channels -> Versions]]

\* A worker at a product has one, and writes only a live one.
WellFormed(j) ==
    /\ j \in Jobs
    /\ j.pc \in {"find", "erase", "load", "write"} => j.product \in Products
    /\ j.pc = "write" => j.read.live
    /\ j.pc = "idle" => j.kind = "none"

DbTyped ==
    /\ db \in [Products -> Rows]
    /\ changes \in Nat /\ changes <= MaxChanges
    /\ \A p \in Products : db[p].version <= changes + 1
QueueTyped == queue \in Seq(Requests)
DocsTyped ==
    /\ made \in Nat \ {0}
    /\ DOMAIN docs \subseteq 0 .. made
    /\ \A i \in DOMAIN docs : docs[i] \in Contents
    /\ served \subseteq DOMAIN docs
    /\ fresh \subseteq DOMAIN docs \ served
JobsTyped == job \in [Workers -> Jobs] /\ \A w \in Workers : WellFormed(job[w])

\* Each index that was made, each that a worker is about to make and each waiting
\* reindex was requested.
Creating == {w \in Workers : job[w].pc = "create"}
Waiting(q) == {n \in 1 .. Len(q) : q[n].kind = "reindex"}
Counted ==
    /\ reindexes \in Nat /\ reindexes <= MaxReindexes
    /\ IsFiniteSet(Creating)
    /\ made + Cardinality(Creating) + Cardinality(Waiting(queue)) <= 1 + reindexes

Typed == DbTyped /\ QueueTyped /\ DocsTyped /\ JobsTyped /\ Counted

\* The waiting reindexes are finitely many; one more when one is appended, one
\* less when it is taken.
LEMMA WaitingReindexes ==
    ASSUME NEW q \in Seq(Requests)
    PROVE  /\ IsFiniteSet(Waiting(q)) /\ Cardinality(Waiting(q)) \in Nat
           /\ \A r \in Requests :
                 Cardinality(Waiting(Append(q, r))) =
                    Cardinality(Waiting(q)) + IF r.kind = "reindex" THEN 1 ELSE 0
           /\ q # <<>> =>
                 Cardinality(Waiting(Tail(q))) + (IF Head(q).kind = "reindex" THEN 1 ELSE 0)
                    <= Cardinality(Waiting(q))
<1>1. IsFiniteSet(1 .. Len(q)) /\ Waiting(q) \subseteq 1 .. Len(q)
  BY FS_Interval DEF Waiting
<1>2. IsFiniteSet(Waiting(q))
  BY <1>1, FS_Subset
<1>3. Cardinality(Waiting(q)) \in Nat
  BY <1>2, FS_CardinalityType
<1>4. ASSUME NEW r \in Requests
      PROVE  Cardinality(Waiting(Append(q, r))) =
                Cardinality(Waiting(q)) + IF r.kind = "reindex" THEN 1 ELSE 0
  <2>1. Len(q) + 1 \notin Waiting(q)
    BY DEF Waiting
  <2>2. Waiting(Append(q, r)) =
           IF r.kind = "reindex" THEN Waiting(q) \cup {Len(q) + 1} ELSE Waiting(q)
    BY DEF Waiting
  <2>3. Cardinality(Waiting(q) \cup {Len(q) + 1}) = Cardinality(Waiting(q)) + 1
    BY <1>2, <2>1, FS_AddElement
  <2> QED BY <1>3, <2>2, <2>3
<1>5. ASSUME q # <<>>
      PROVE  Cardinality(Waiting(Tail(q))) + (IF Head(q).kind = "reindex" THEN 1 ELSE 0)
                <= Cardinality(Waiting(q))
  <2>1. /\ Len(Tail(q)) = Len(q) - 1 /\ Head(q) = q[1] /\ Len(q) \in Nat \ {0}
        /\ \A n \in 1 .. Len(q) - 1 : Tail(q)[n] = q[n + 1]
    BY <1>5
  <2> DEFINE rest == Waiting(q) \ {1}
             before == [n \in rest |-> n - 1]
  <2>2. before \in Surjection(rest, Waiting(Tail(q)))
    <3>1. \A n \in rest : before[n] \in Waiting(Tail(q))
      BY <2>1 DEF Waiting
    <3>2. \A m \in Waiting(Tail(q)) : m + 1 \in rest /\ before[m + 1] = m
      BY <2>1 DEF Waiting
    <3> QED BY <3>1, <3>2 DEF Surjection
  <2>3. /\ IsFiniteSet(rest)
        /\ Cardinality(rest) = IF 1 \in Waiting(q) THEN Cardinality(Waiting(q)) - 1
                               ELSE Cardinality(Waiting(q))
    BY <1>2, FS_RemoveElement
  <2> HIDE DEF before, rest
  <2>4. IsFiniteSet(Waiting(Tail(q))) /\ Cardinality(Waiting(Tail(q))) <= Cardinality(rest)
    BY <2>2, <2>3, FS_Surjection
  <2>5. Cardinality(Waiting(Tail(q))) \in Nat
    BY <2>4, FS_CardinalityType
  <2>6. 1 \in Waiting(q) <=> Head(q).kind = "reindex"
    BY <2>1 DEF Waiting
  <2> QED BY <1>3, <2>3, <2>4, <2>5, <2>6
<1> QED BY <1>2, <1>3, <1>4, <1>5

-----------------------------------------------------------------------------
\* Pages. The row number of a live product is one more than that of the product
\* before it, and that of any other product is the same.
RowsUpTo(p) == {q \in 1 .. p : Live(q)}

\* From one product to the next.
LEMMA NextRow ==
    ASSUME NEW p \in 0 .. NProducts
    PROVE  /\ RowNumber(p) \in Nat
           /\ p = 0 => RowNumber(p) = 0
           /\ p # 0 => /\ RowNumber(p - 1) \in Nat
                       /\ RowNumber(p) = RowNumber(p - 1) + IF Live(p) THEN 1 ELSE 0
<1>1. NProducts \in Nat
  BY ShopAssumption
<1>2. ASSUME NEW q \in 0 .. NProducts
      PROVE  /\ IsFiniteSet(RowsUpTo(q))
             /\ RowNumber(q) = Cardinality(RowsUpTo(q)) /\ RowNumber(q) \in Nat
  <2>1. IsFiniteSet(1 .. q) /\ RowsUpTo(q) \subseteq 1 .. q
    BY <1>1, FS_Interval DEF RowsUpTo
  <2>2. IsFiniteSet(RowsUpTo(q))
    BY <2>1, FS_Subset
  <2> QED BY <2>2, FS_CardinalityType DEF RowNumber, RowsUpTo
<1>3. ASSUME p = 0 PROVE RowNumber(p) = 0
  <2>1. RowsUpTo(p) = {}
    BY <1>3 DEF RowsUpTo
  <2> QED BY <1>2, <2>1, FS_EmptySet
<1>4. ASSUME p # 0
      PROVE  /\ RowNumber(p - 1) \in Nat
             /\ RowNumber(p) = RowNumber(p - 1) + IF Live(p) THEN 1 ELSE 0
  <2>1. p - 1 \in 0 .. NProducts
    BY <1>1, <1>4
  <2>2. p \notin RowsUpTo(p - 1)
    BY <1>1 DEF RowsUpTo
  <2>3. RowsUpTo(p) = IF Live(p) THEN RowsUpTo(p - 1) \cup {p} ELSE RowsUpTo(p - 1)
    BY <1>1, <1>4 DEF RowsUpTo
  <2>4. Cardinality(RowsUpTo(p - 1) \cup {p}) = Cardinality(RowsUpTo(p - 1)) + 1
    BY <1>2, <2>1, <2>2, FS_AddElement
  <2>5. RowNumber(p) = Cardinality(RowsUpTo(p))
    BY <1>2
  <2>6. RowNumber(p - 1) = Cardinality(RowsUpTo(p - 1)) /\ RowNumber(p - 1) \in Nat
    BY <1>2, <2>1
  <2>7. CASE Live(p)
    BY <2>3, <2>4, <2>5, <2>6, <2>7
  <2>8. CASE ~Live(p)
    BY <2>3, <2>5, <2>6, <2>8
  <2> QED BY <2>7, <2>8
<1> QED BY <1>2, <1>3, <1>4

\* Row numbers grow with the products, and the live ones have numbers of their own.
LEMMA RowNumbersGrow ==
    ASSUME NEW p \in 0 .. NProducts, NEW q \in 0 .. NProducts, p < q
    PROVE  /\ RowNumber(p) <= RowNumber(q)
           /\ Live(q) => RowNumber(p) < RowNumber(q)
<1>1. NProducts \in Nat
  BY ShopAssumption
<1>2. ASSUME NEW r \in 0 .. NProducts, p <= r PROVE RowNumber(p) <= RowNumber(r)
  <2>1. IsFiniteSet(1 .. r) /\ RowsUpTo(p) \subseteq RowsUpTo(r) /\ RowsUpTo(r) \subseteq 1 .. r
    BY <1>1, <1>2, FS_Interval DEF RowsUpTo
  <2>2. IsFiniteSet(RowsUpTo(r))
    BY <2>1, FS_Subset
  <2>3. Cardinality(RowsUpTo(p)) <= Cardinality(RowsUpTo(r))
    BY <2>1, <2>2, FS_Subset
  <2> QED BY <2>3 DEF RowNumber, RowsUpTo
<1>3. q - 1 \in 0 .. NProducts /\ p <= q - 1 /\ q # 0
  BY <1>1
<1>4. RowNumber(p) <= RowNumber(q - 1)
  BY <1>2, <1>3
<1> QED BY <1>3, <1>4, NextRow

\* There is a product at each row.
LEMMA EachRow ==
    ASSUME NEW n \in 1 .. RowNumber(NProducts)
    PROVE  /\ ProductAt(n) \in Products
           /\ Live(ProductAt(n)) /\ RowNumber(ProductAt(n)) = n
<1>1. NProducts \in Nat /\ RowNumber(NProducts) \in Nat /\ n \in Nat
  BY ShopAssumption, NextRow
<1> DEFINE before == {p \in 0 .. NProducts : RowNumber(p) < n}
<1>2. Positions(before)
  <2>1. IsFiniteSet(0 .. NProducts) /\ before \subseteq 0 .. NProducts
    BY <1>1, FS_Interval
  <2>2. IsFiniteSet(before)
    BY <2>1, FS_Subset
  <2> QED BY <2>1, <2>2 DEF Positions
<1>3. 0 \in before
  BY <1>1, NextRow
<1>4. PICK m \in before : \A p \in before : m >= p
  <2> HIDE DEF before
  <2> QED BY <1>2, <1>3, MaxIsGreatest
<1>5. m \in 0 .. NProducts /\ RowNumber(m) < n /\ m # NProducts
  BY <1>1
<1>6. m + 1 \in Products /\ m + 1 \in 0 .. NProducts /\ m + 1 \notin before
  BY <1>1, <1>4, <1>5 DEF Products
<1>7. RowNumber(m + 1) \in Nat /\ RowNumber(m + 1) >= n
  BY <1>1, <1>6, NextRow
<1>8. RowNumber(m + 1) = RowNumber(m) + (IF Live(m + 1) THEN 1 ELSE 0) /\ RowNumber(m) \in Nat
  <2>1. PICK p : p = m + 1
    OBVIOUS
  <2>2. p \in 0 .. NProducts /\ p # 0 /\ p - 1 = m
    BY <1>5, <1>6, <2>1
  <2> QED BY <2>1, <2>2, NextRow
<1>9. Live(m + 1) /\ RowNumber(m + 1) = n
  BY <1>1, <1>5, <1>7, <1>8
<1> QED BY <1>6, <1>9 DEF ProductAt

\* A page is a sequence of live products. The product of each of its rows is on
\* it, and it is full when there are rows behind it.
LEMMA PageRows ==
    ASSUME NEW skip \in Nat
    PROVE  /\ LivePage(skip) \in Seq(Products)
           /\ \A k \in DOMAIN LivePage(skip) : Live(LivePage(skip)[k])
           /\ \A p \in Products : Live(p) /\ RowNumber(p) > skip =>
                 \/ \E k \in DOMAIN LivePage(skip) : LivePage(skip)[k] = p
                 \/ RowNumber(p) > skip + ChunkSize /\ Len(LivePage(skip)) >= ChunkSize
<1>1. NProducts \in Nat /\ RowNumber(NProducts) \in Nat /\ ChunkSize \in Nat \ {0}
  BY ShopAssumption, NextRow
<1>2. PICK n \in Nat : /\ n = IF PageLength(skip) < 0 THEN 0 ELSE PageLength(skip)
                       /\ 1 .. PageLength(skip) = 1 .. n
  BY <1>1 DEF PageLength
<1>3. \A k \in 1 .. n : skip + k \in 1 .. RowNumber(NProducts)
  BY <1>1, <1>2 DEF PageLength
<1>4. \A k \in 1 .. n : ProductAt(skip + k) \in Products /\ Live(ProductAt(skip + k))
                        /\ RowNumber(ProductAt(skip + k)) = skip + k
  BY <1>3, EachRow
<1>5. LivePage(skip) = [k \in 1 .. n |-> ProductAt(skip + k)]
  BY <1>2 DEF LivePage
<1>6. LivePage(skip) \in Seq(Products) /\ DOMAIN LivePage(skip) = 1 .. n /\ Len(LivePage(skip)) = n
  <2>1. PICK page : page = [k \in 1 .. n |-> ProductAt(skip + k)]
    OBVIOUS
  <2>2. page \in [1 .. n -> Products]
    BY <1>4, <2>1
  <2>3. page \in Seq(Products) /\ DOMAIN page = 1 .. n /\ Len(page) = n
    BY <1>2, <2>2
  <2> QED BY <1>5, <2>1, <2>3
<1>7. ASSUME NEW p \in Products, Live(p), RowNumber(p) > skip
      PROVE  \/ \E k \in DOMAIN LivePage(skip) : LivePage(skip)[k] = p
             \/ RowNumber(p) > skip + ChunkSize /\ Len(LivePage(skip)) >= ChunkSize
  <2>1. p \in 0 .. NProducts /\ NProducts \in 0 .. NProducts /\ RowNumber(p) \in Nat
    BY <1>1, NextRow DEF Products
  <2>2. RowNumber(p) <= RowNumber(NProducts)
    BY <1>1, <2>1, RowNumbersGrow
  <2>3. CASE RowNumber(p) > skip + ChunkSize
    BY <1>1, <1>2, <1>6, <2>1, <2>2, <2>3 DEF PageLength
  <2>4. CASE RowNumber(p) <= skip + ChunkSize
    <3>1. PICK k \in 1 .. n : RowNumber(p) = skip + k
      <4>1. RowNumber(p) - skip \in 1 .. n
        BY <1>1, <1>2, <1>7, <2>1, <2>2, <2>4 DEF PageLength
      <4> QED BY <4>1, <2>1
    <3>2. PICK r : r = ProductAt(skip + k)
      OBVIOUS
    <3>3. r \in Products /\ Live(r) /\ RowNumber(r) = RowNumber(p)
      BY <1>4, <3>1, <3>2
    <3>4. r \in 0 .. NProducts /\ RowNumber(r) \in Nat
      BY <1>1, <3>3, NextRow DEF Products
    <3>5. ~(r < p) /\ ~(p < r)
      BY <1>7, <2>1, <3>3, <3>4, RowNumbersGrow
    <3>6. r = p
      BY <1>1, <3>3, <3>5 DEF Products
    <3> QED BY <1>5, <1>6, <3>1, <3>2, <3>6
  <2> QED BY <1>1, <2>1, <2>3, <2>4
<1> QED BY <1>4, <1>5, <1>6, <1>7

-----------------------------------------------------------------------------
\* The idle job, and the job after a product.
LEMMA IdleWellFormed == ASSUME made \in Nat PROVE WellFormed(Idle)
BY ShopAssumption, BoundAssumption DEF WellFormed, Idle, Jobs, NoRow, Rows, Versions

\* The job after a product has the type of a job.
LEMMA AfterProductWellFormed ==
    ASSUME made \in Nat, NEW j \in Jobs PROVE WellFormed(AfterProduct(j))
<1>1. CASE j.kind # "reindex"
  BY <1>1, IdleWellFormed DEF AfterProduct
<1>2. CASE j.kind = "reindex" /\ j.todo # <<>>
  <2>1. j.todo \in Seq(Products)
    BY DEF Jobs
  <2>2. Head(j.todo) \in Products /\ Tail(j.todo) \in Seq(Products)
    BY <1>2, <2>1
  <2> QED BY <1>2, <2>2 DEF AfterProduct, WellFormed, Jobs
<1>3. CASE j.kind = "reindex" /\ j.todo = <<>>
  BY <1>3 DEF AfterProduct, WellFormed, Jobs
<1> QED BY <1>1, <1>2, <1>3

\* Only one worker moves.
LEMMA JobMoves ==
    ASSUME JobsTyped, NEW w \in Workers, NEW j, WellFormed(j), To(w, j), made' = made
    PROVE  JobsTyped'
<1>1. Jobs' = Jobs
  BY DEF Jobs, Rows, Versions
<1>2. j \in Jobs
  BY DEF WellFormed
<1>3. job' \in [Workers -> Jobs] /\ \A v \in Workers : job'[v] = IF v = w THEN j ELSE job[v]
  BY <1>2 DEF JobsTyped, To
<1>4. \A v \in Workers : WellFormed(job'[v])
  BY <1>3 DEF JobsTyped
<1> QED BY <1>1, <1>3, <1>4 DEF JobsTyped, WellFormed

\* The job each step leads to.
LEMMA StepJobs ==
    ASSUME Typed, NEW w \in Workers, Step(w) \/ Crash(w), ~CreateIndex(w)
    PROVE  made' = made /\ \E j : WellFormed(j) /\ To(w, j) /\ (j.pc = "create" => Take(w))
<1>m. made' = made
  BY ZenonT(60) DEF Step, Crash, Take, Find, Erase, Load, Write, Page, Resolve, Replace, Swap, SwapOr,
     DropOriginal, Cleanup, indices
<1>t. /\ WellFormed(job[w]) /\ job[w] \in Jobs /\ made \in Nat
      /\ job[w].pc # "idle" => job[w].kind \in {"none", "update", "delete", "reindex"}
  BY DEF Typed, JobsTyped, DocsTyped, Jobs
<1>i. WellFormed(Idle) /\ Idle.pc = "idle"
  BY <1>t, IdleWellFormed DEF Idle
<1>a. \A j \in Jobs : WellFormed(AfterProduct(j)) /\ AfterProduct(j).pc # "create"
  <2>1. ASSUME NEW j \in Jobs PROVE AfterProduct(j).pc # "create"
    BY DEF AfterProduct, Idle, Jobs
  <2> QED BY <1>t, <2>1, AfterProductWellFormed
<1> SUFFICES \E j : WellFormed(j) /\ To(w, j) /\ (j.pc = "create" => Take(w))
  BY <1>m
<1>1. CASE Take(w)
  <2>1. PICK next : next = Head(queue)
    OBVIOUS
  <2>2. next \in Requests
    BY <1>1, <2>1 DEF Take, Typed, QueueTyped
  <2>3. PICK j : j = [Idle EXCEPT !.pc = IF next.kind = "reindex" THEN "create" ELSE "find",
                                  !.kind = next.kind, !.product = next.product,
                                  !.ctx = next.ctx]
    OBVIOUS
  <2>4. To(w, j)
    BY <1>1, <2>1, <2>3 DEF Take
  <2>5. Idle \in Jobs
    BY <1>i DEF WellFormed
  <2>6. /\ next.kind \in {"update", "delete", "reindex"} /\ next.ctx \in Channels
        /\ next.product \in Products \cup {0}
        /\ next.kind # "reindex" => next.product \in Products
    BY <2>2, ShopAssumption DEF Requests, ReindexJob
  <2>7. j \in Jobs
    BY <2>3, <2>5, <2>6 DEF Jobs, Idle
  <2>8. /\ j.pc = IF next.kind = "reindex" THEN "create" ELSE "find"
        /\ j.product = next.product
    BY <2>3 DEF Idle
  <2>9. WellFormed(j)
    BY <2>6, <2>7, <2>8 DEF WellFormed
  <2> QED BY <1>1, <2>4, <2>9
<1>2. CASE Find(w)
  <2>1. PICK j : /\ To(w, j)
                 /\ j \in {[job[w] EXCEPT !.pc = "erase"], [job[w] EXCEPT !.pc = "load"], Idle}
    BY <1>2 DEF Find, AfterErase
  <2>2. WellFormed(j) /\ j.pc # "create"
    BY <1>2, <1>t, <1>i, <2>1 DEF Find, WellFormed, Jobs
  <2> QED BY <2>1, <2>2
<1>3. CASE Erase(w)
  <2>1. PICK j : To(w, j) /\ j \in {[job[w] EXCEPT !.pc = "load"], Idle}
    BY <1>3 DEF Erase, AfterErase
  <2>2. WellFormed(j) /\ j.pc # "create"
    BY <1>3, <1>t, <1>i, <2>1 DEF Erase, WellFormed, Jobs
  <2> QED BY <2>1, <2>2
<1>4. CASE Load(w)
  <2>1. job[w].product \in Products /\ db[job[w].product] \in Rows
    BY <1>4, <1>t DEF Load, WellFormed, Typed, DbTyped
  <2>2. PICK j : /\ To(w, j)
                 /\ \/ /\ j = [job[w] EXCEPT !.pc = "write", !.read = db[job[w].product]]
                       /\ db[job[w].product].live
                    \/ j = AfterProduct(job[w])
    BY <1>4 DEF Load, Live
  <2>3. ASSUME j = [job[w] EXCEPT !.pc = "write", !.read = db[job[w].product]],
               db[job[w].product].live
        PROVE  WellFormed(j) /\ j.pc # "create"
    BY <1>t, <2>1, <2>3 DEF WellFormed, Jobs
  <2> QED BY <1>t, <1>a, <2>2, <2>3
<1>5. CASE Write(w)
  <2>1. PICK k : k = [job[w] EXCEPT !.read = NoRow]
    OBVIOUS
  <2>2. NoRow \in Rows
    BY BoundAssumption DEF NoRow, Rows, Versions
  <2>3. k \in Jobs /\ To(w, AfterProduct(k))
    BY <1>5, <1>t, <2>1, <2>2 DEF Write, Jobs
  <2> QED BY <1>a, <2>3
<1>6. CASE Page(w)
  <2>1. PICK k, page, full :
            /\ page = LivePage(job[w].skip) /\ full = (Len(page) >= ChunkSize)
            /\ k = [job[w] EXCEPT !.todo = page, !.skip = @ + ChunkSize, !.full = full]
    OBVIOUS
  <2>2. job[w].skip \in Nat /\ job[w].skip + ChunkSize \in Nat
    BY <1>t, ShopAssumption DEF Jobs
  <2>3. page \in Seq(Products) /\ full \in BOOLEAN
    BY <2>1, <2>2, PageRows
  <2>4. k \in Jobs
    <3>1. k = [job[w] EXCEPT !.todo = page, !.skip = @ + ChunkSize, !.full = full]
      BY <2>1
    <3> HIDE <2>1
    <3> QED BY <1>t, <2>2, <2>3, <3>1 DEF Jobs
  <2>5. To(w, AfterProduct(k))
    BY <1>6, <2>1 DEF Page
  <2> QED BY <1>a, <2>4, <2>5
<1>7. CASE Resolve(w)
  <2>0. 0 \in 0 .. made /\ \A o \in served : o \in 0 .. made
    BY <1>t DEF Typed, DocsTyped
  <2>3. PICK o \in 0 .. made, pc \in {"swap", "replace"} :
            \/ To(w, [job[w] EXCEPT !.pc = pc, !.original = o])
            \/ To(w, [job[w] EXCEPT !.pc = pc])
    BY <1>7, <2>0 DEF Resolve
  <2>1. PICK j : /\ To(w, j)
                 /\ \/ j = [job[w] EXCEPT !.pc = pc, !.original = o]
                    \/ j = [job[w] EXCEPT !.pc = pc]
    BY <2>3
  <2>2. WellFormed(j) /\ j.pc # "create"
    BY <1>t, <2>1 DEF WellFormed, Jobs
  <2> QED BY <2>1, <2>2
<1>8. CASE Replace(w) \/ Swap(w) \/ DropOriginal(w)
  <2>1. PICK pc \in {"swap", "drop", "cleanup"} : To(w, [job[w] EXCEPT !.pc = pc])
    BY <1>8 DEF Replace, Swap, SwapOr, DropOriginal
  <2>2. PICK j : j = [job[w] EXCEPT !.pc = pc]
    OBVIOUS
  <2>3. j \in Jobs /\ j.pc \in {"swap", "drop", "cleanup"}
    BY <1>t, <2>2 DEF Jobs
  <2> QED BY <2>1, <2>2, <2>3 DEF WellFormed
<1>9. CASE Cleanup(w) \/ Crash(w)
  BY <1>9, <1>i DEF Cleanup, Crash
<1> QED BY <1>1, <1>2, <1>3, <1>4, <1>5, <1>6, <1>7, <1>8, <1>9 DEF Step

\* CreateIndex makes an index or fails.
LEMMA CreateJobs ==
    ASSUME Typed, NEW w \in Workers, CreateIndex(w)
    PROVE  JobsTyped' /\ (\A v \in Workers : job'[v] = job[v] \/ v = w) /\ job'[w].pc # "create"
<1>t. WellFormed(job[w]) /\ job \in [Workers -> Jobs] /\ made \in Nat \ {0}
  BY DEF Typed, JobsTyped, DocsTyped
<1>1. CASE To(w, Idle) /\ UNCHANGED made
  <2>1. WellFormed(Idle)
    BY <1>t, IdleWellFormed
  <2> QED BY <1>t, <1>1, <2>1, JobMoves DEF Typed, To, Idle
<1>2. CASE made' = made + 1 /\ To(w, [job[w] EXCEPT !.pc = "page", !.index = made + 1])
  <2>1. PICK j : j = [job[w] EXCEPT !.pc = "page", !.index = made + 1]
    OBVIOUS
  <2>2. \A k \in Jobs : k \in Jobs'
    BY <1>t, <1>2 DEF Jobs, Rows, Versions
  <2>3. j \in Jobs' /\ j.pc = "page"
    <3>1. job[w] \in Jobs' /\ made + 1 \in 0 .. made'
      BY <1>t, <1>2, <2>2
    <3> QED BY <2>1, <3>1 DEF Jobs
  <2>4. \A v \in Workers : job'[v] = IF v = w THEN j ELSE job[v]
    BY <1>t, <1>2, <2>1 DEF To
  <2>5. job' \in [Workers -> Jobs']
    <3>1. DOMAIN job' = Workers /\ job' = [v \in Workers |-> job'[v]]
      BY <1>t, <1>2, <2>1 DEF To
    <3> QED BY <1>t, <2>2, <2>3, <2>4, <3>1
  <2>6. \A v \in Workers : WellFormed(job[v])
    BY DEF Typed, JobsTyped
  <2>7. \A v \in Workers : WellFormed(job[v])'
    <3> TAKE v \in Workers
    <3>1. CASE v = w
      BY <2>3, <2>4, <3>1 DEF WellFormed
    <3>2. CASE v # w
      BY <2>2, <2>4, <2>6, <3>2 DEF WellFormed
    <3> QED BY <3>1, <3>2
  <2> QED BY <2>3, <2>4, <2>5, <2>7 DEF JobsTyped
<1> QED BY <1>1, <1>2 DEF CreateIndex

-----------------------------------------------------------------------------
\* Admin operations: a row is changed, or nothing but the queue.
LEMMA AdminSteps ==
    ASSUME Typed, Admin
    PROVE  /\ UNCHANGED <<docs, served, fresh, made, job, failures, crashes>>
           /\ \/ /\ RequestReindex /\ UNCHANGED db /\ reindexes' = reindexes + 1
                 /\ queue' = Append(queue, ReindexJob)
              \/ \E p \in Products, row \in Rows, kind \in {"update", "delete"}, ctx \in Channels :
                    /\ row.version = db[p].version
                    /\ Change(p, row, kind, ctx)
                    /\ UNCHANGED reindexes
<1>1. CASE RequestReindex
  BY <1>1 DEF RequestReindex, indices, faults
<1>2. ASSUME NEW p \in Products, NEW ctx \in Channels,
             \/ CreateProduct(p, ctx) \/ UpdateProduct(p, ctx) \/ DeleteProduct(p, ctx)
             \/ \E c \in Channels :
                    AssignProductToChannel(p, c, ctx) \/ RemoveProductFromChannel(p, c, ctx)
      PROVE  \E row \in Rows, kind \in {"update", "delete"} :
                row.version = db[p].version /\ Change(p, row, kind, ctx)
  <2>1. db[p] \in Rows
    BY DEF Typed, DbTyped
  <2>2. CASE CreateProduct(p, ctx)
    <3>1. PICK row : row = [db[p] EXCEPT !.live = TRUE, !.channels = {Default, ctx}]
      OBVIOUS
    <3>2. row \in Rows /\ row.version = db[p].version
      BY <2>1, <3>1, ShopAssumption DEF Rows
    <3> QED BY <2>2, <3>1, <3>2 DEF CreateProduct
  <2>3. CASE UpdateProduct(p, ctx)
    BY <2>1, <2>3 DEF UpdateProduct
  <2>4. CASE DeleteProduct(p, ctx)
    <3>1. PICK row : row = [db[p] EXCEPT !.live = FALSE]
      OBVIOUS
    <3>2. row \in Rows /\ row.version = db[p].version
      BY <2>1, <3>1 DEF Rows
    <3> QED BY <2>4, <3>1, <3>2 DEF DeleteProduct
  <2>5. ASSUME NEW c \in Channels, AssignProductToChannel(p, c, ctx)
        PROVE  \E row \in Rows, kind \in {"update", "delete"} :
                  row.version = db[p].version /\ Change(p, row, kind, ctx)
    <3>1. PICK row : row = [db[p] EXCEPT !.channels = @ \cup {c}]
      OBVIOUS
    <3>2. row \in Rows /\ row.version = db[p].version
      BY <2>1, <3>1 DEF Rows
    <3> QED BY <2>5, <3>1, <3>2 DEF AssignProductToChannel
  <2>6. ASSUME NEW c \in Channels, RemoveProductFromChannel(p, c, ctx)
        PROVE  \E row \in Rows, kind \in {"update", "delete"} :
                  row.version = db[p].version /\ Change(p, row, kind, ctx)
    <3>1. PICK row : row = [db[p] EXCEPT !.channels = @ \ {c}]
      OBVIOUS
    <3>2. row \in Rows /\ row.version = db[p].version
      BY <2>1, <3>1 DEF Rows
    <3> QED BY <2>6, <3>1, <3>2 DEF RemoveProductFromChannel
  <2> QED BY <1>2, <2>2, <2>3, <2>4, <2>5, <2>6
<1>3. CASE ~RequestReindex
  <2>1. PICK p \in Products, ctx \in Channels, row \in Rows, kind \in {"update", "delete"} :
            row.version = db[p].version /\ Change(p, row, kind, ctx)
    BY <1>2, <1>3 DEF Admin
  <2>2. UNCHANGED <<docs, served, fresh, made, job, failures, crashes, reindexes>>
    BY <2>1 DEF Change, indices, faults
  <2> QED BY <2>1, <2>2
<1> QED BY <1>1, <1>3

\* The admins' operations keep the types.
LEMMA AdminTyped == ASSUME Typed, Admin PROVE Typed'
<1>1. UNCHANGED <<docs, served, fresh, made, job, failures, crashes>>
  BY AdminSteps
<1>2. DocsTyped' /\ JobsTyped'
  BY <1>1 DEF Typed, DocsTyped, JobsTyped, WellFormed, Contents, Jobs, Rows, Versions
<1>3. Creating' = Creating
  BY <1>1 DEF Creating
<1>q. queue \in Seq(Requests)
  BY DEF Typed, QueueTyped
<1>w. Cardinality(Waiting(queue)) \in Nat
  BY <1>q, WaitingReindexes
<1>n. /\ made \in Nat /\ Cardinality(Creating) \in Nat /\ reindexes \in Nat
      /\ made + Cardinality(Creating) + Cardinality(Waiting(queue)) <= 1 + reindexes
  BY FS_CardinalityType DEF Typed, DocsTyped, Counted
<1>4. CASE /\ RequestReindex /\ UNCHANGED db /\ reindexes' = reindexes + 1
           /\ queue' = Append(queue, ReindexJob)
  <2>1. ReindexJob \in Requests /\ ReindexJob.kind = "reindex"
    BY DEF Requests, ReindexJob
  <2>2. QueueTyped' /\ Cardinality(Waiting(queue')) = Cardinality(Waiting(queue)) + 1
    BY <1>4, <1>q, <2>1, WaitingReindexes DEF QueueTyped, Requests, ReindexJob
  <2>3. reindexes' \in Nat /\ reindexes' <= MaxReindexes
    BY <1>4, <1>n, BoundAssumption DEF RequestReindex
  <2>4. made' + Cardinality(Creating') + Cardinality(Waiting(queue')) <= 1 + reindexes'
    BY <1>1, <1>3, <1>4, <1>w, <1>n, <2>2
  <2>5. Counted'
    BY <1>3, <2>3, <2>4 DEF Typed, Counted
  <2>6. DbTyped'
    BY <1>4 DEF RequestReindex, Typed, DbTyped, Rows, Versions
  <2> QED BY <1>2, <2>2, <2>5, <2>6 DEF Typed
<1>5. ASSUME NEW p \in Products, NEW row \in Rows, NEW kind \in {"update", "delete"},
             NEW ctx \in Channels, row.version = db[p].version, Change(p, row, kind, ctx),
             UNCHANGED reindexes
      PROVE  Typed'
  <2>1. ProductJob(kind, p, ctx) \in Requests /\ ProductJob(kind, p, ctx).kind # "reindex"
    BY DEF Requests, ProductJob
  <2>2. queue' = Append(queue, ProductJob(kind, p, ctx))
    BY <1>5 DEF Change
  <2>3. queue' \in Seq(Requests) /\ Cardinality(Waiting(queue')) = Cardinality(Waiting(queue)) + 0
    BY <1>q, <2>1, <2>2, WaitingReindexes
  <2>4. QueueTyped'
    BY <2>3 DEF QueueTyped, Requests, ReindexJob
  <2>5. Counted'
    BY <1>1, <1>3, <1>5, <1>w, <2>3 DEF Typed, Counted
  <2>6. PICK new : new = [row EXCEPT !.version = @ + 1]
    OBVIOUS
  <2>7. /\ changes \in Nat /\ changes < MaxChanges /\ changes' = changes + 1
        /\ db' = [db EXCEPT ![p] = new]
    BY <1>5, <2>6 DEF Change, Typed, DbTyped
  <2>8. row.version \in Nat /\ row.version <= changes + 1
    BY <1>5, BoundAssumption DEF Typed, DbTyped, Rows, Versions
  <2>9. new \in Rows /\ new.version <= changes' + 1
    BY <2>6, <2>7, <2>8, BoundAssumption DEF Rows, Versions
  <2>10. \A q \in Products : db[q].version \in Nat
    BY BoundAssumption DEF Typed, DbTyped, Rows, Versions
  <2>11. \A q \in Products : db'[q].version <= changes' + 1
    BY <2>7, <2>9, <2>10 DEF Typed, DbTyped
  <2>12. DbTyped'
    BY <2>7, <2>9, <2>11, BoundAssumption DEF Typed, DbTyped, Rows, Versions
  <2> QED BY <1>2, <2>4, <2>5, <2>12 DEF Typed
<1> QED BY <1>4, <1>5, AdminSteps

\* The database is the admins'.
LEMMA WorkersReadTheDatabase ==
    ASSUME NEW w \in Workers, Step(w) \/ Crash(w)
    PROVE  /\ UNCHANGED <<db, changes, reindexes>>
           /\ Take(w) \/ UNCHANGED queue
BY ZenonT(60) DEF Step, Crash, Take, Find, Erase, Load, Write, CreateIndex, Page, Resolve, Replace,
   Swap, SwapOr, DropOriginal, Cleanup, admin

\* What a request makes of an index's documents.
LEMMA BulkContents ==
    ASSUME DocsTyped, NEW j, NEW content, Bulk(j, content),
           \A i \in DOMAIN docs : content[i] \in [Channels -> Versions]
    PROVE  DOMAIN docs' = DOMAIN docs /\ \A i \in DOMAIN docs : docs'[i] \in Contents
<1>1. CASE docs' = [i \in DOMAIN docs |->
                     IF i \in WriteTarget(j) THEN [docs[i] EXCEPT ![j.product] = content[i]]
                     ELSE docs[i]]
  BY <1>1 DEF DocsTyped, Contents
<1>2. CASE UNCHANGED docs
  BY <1>2 DEF DocsTyped
<1> QED BY <1>1, <1>2 DEF Bulk

\* An index that is deleted takes its aliases with it.
LEMMA DeletedIndex ==
    ASSUME DocsTyped, NEW i, DeleteIndex(i), made' = made PROVE DocsTyped'
BY DEF DocsTyped, DeleteIndex, Restrict, Contents, Versions

\* The workers keep the documents' types, and the aliases on different indices
\* that exist.
LEMMA StepDocs ==
    ASSUME Typed, IInv, NEW w \in Workers, Step(w) \/ Crash(w) PROVE DocsTyped'
<1>d. DocsTyped
  BY DEF Typed
<1>c. Contents' = Contents
  BY DEF Contents, Versions
<1>1. CASE Take(w) \/ Find(w) \/ Load(w) \/ Page(w) \/ Resolve(w) \/ Crash(w)
  <2>1. UNCHANGED <<docs, served, fresh, made>>
    BY <1>1 DEF Take, Find, Load, Page, Resolve, Crash, indices
  <2> QED BY <1>d, <1>c, <2>1 DEF DocsTyped
<1>2. CASE Erase(w) \/ Write(w)
  <2>1. job[w].read \in Rows
    BY DEF Typed, JobsTyped, Jobs
  <2>2. \A i \in DOMAIN docs : [c \in Channels |-> 0] \in [Channels -> Versions]
    BY BoundAssumption DEF Versions
  <2>3. CASE Erase(w)
    <3>1. PICK content : /\ Bulk(job[w], content)
                         /\ content = [i \in DOMAIN docs |-> [c \in Channels |-> 0]]
      BY <2>3 DEF Erase
    <3>2. DOMAIN docs' = DOMAIN docs /\ \A i \in DOMAIN docs : docs'[i] \in Contents
      BY <1>d, <2>2, <3>1, BulkContents
    <3>3. UNCHANGED <<served, fresh, made>>
      BY <2>3 DEF Erase
    <3> QED BY <1>d, <1>c, <3>2, <3>3 DEF DocsTyped
  <2>4. ASSUME Write(w), ~MakesIndex(job[w]) PROVE DocsTyped'
    <3>1. PICK content :
             /\ Bulk(job[w], content)
             /\ content = [i \in DOMAIN docs |-> [c \in Channels |->
                              IF c \in job[w].read.channels THEN job[w].read.version
                              ELSE docs[i][job[w].product][c]]]
      BY <2>4 DEF Write
    <3>2. job[w].product \in Products
      BY <2>4 DEF Write, Typed, JobsTyped, WellFormed
    <3>3. \A i \in DOMAIN docs : content[i] \in [Channels -> Versions]
      BY <1>d, <2>1, <3>1, <3>2 DEF DocsTyped, Contents, Rows
    <3>4. DOMAIN docs' = DOMAIN docs /\ \A i \in DOMAIN docs : docs'[i] \in Contents
      BY <1>d, <3>1, <3>3, BulkContents
    <3>5. UNCHANGED <<served, fresh, made>>
      BY <2>4 DEF Write
    <3> QED BY <1>d, <1>c, <3>4, <3>5 DEF DocsTyped
  <2>5. ASSUME Write(w), MakesIndex(job[w]) PROVE DocsTyped'
    <3>1. PICK row : row = [c \in Channels |-> IF c \in job[w].read.channels
                                             THEN job[w].read.version ELSE 0]
      OBVIOUS
    <3>2. row \in [Channels -> Versions] /\ NoDocs \in Contents
      BY <2>1, <3>1, BoundAssumption DEF NoDocs, Contents, Rows, Versions
    <3>3. [NoDocs EXCEPT ![job[w].product] = row] \in Contents
      BY <3>2 DEF Contents
    <3>4. /\ served' = {0} /\ fresh' = fresh /\ made' = made
          /\ docs' = [i \in DOMAIN docs \cup {0} |->
                        IF i # 0 THEN docs[i] ELSE [NoDocs EXCEPT ![job[w].product] = row]]
      BY <2>5, <3>1 DEF Write, MakesIndex
    <3>5. DOMAIN docs' = DOMAIN docs \cup {0} /\ \A i \in DOMAIN docs' : docs'[i] \in Contents
      BY <1>d, <3>3, <3>4 DEF DocsTyped
    <3>6. 0 \notin fresh
      BY DEF IInv, SwitchInv
    <3>7. made' \in Nat \ {0} /\ DOMAIN docs' \subseteq 0 .. made'
      BY <1>d, <3>4, <3>5 DEF DocsTyped
    <3>8. served' \subseteq DOMAIN docs' /\ fresh' \subseteq DOMAIN docs' \ served'
      BY <1>d, <3>4, <3>5, <3>6 DEF DocsTyped
    <3> QED BY <1>c, <3>5, <3>7, <3>8 DEF DocsTyped
  <2> QED BY <1>2, <2>3, <2>4, <2>5
<1>3. CASE CreateIndex(w)
  <2>1. CASE UNCHANGED <<docs, fresh, made>>
    BY <1>3, <1>d, <1>c, <2>1 DEF CreateIndex, DocsTyped
  <2>2. CASE /\ made' = made + 1
             /\ docs' = [i \in DOMAIN docs \cup {made + 1} |->
                           IF i = made + 1 THEN NoDocs ELSE docs[i]]
             /\ fresh' = fresh \cup {made + 1}
    <3>1. NoDocs \in Contents
      BY BoundAssumption DEF NoDocs, Contents, Versions
    <3>2. served' = served
      BY <1>3 DEF CreateIndex
    <3>3. DOMAIN docs' = DOMAIN docs \cup {made + 1} /\ \A i \in DOMAIN docs' : docs'[i] \in Contents
      BY <1>d, <2>2, <3>1 DEF DocsTyped
    <3>4. made + 1 \notin DOMAIN docs /\ DOMAIN docs' \subseteq 0 .. made'
      BY <1>d, <2>2, <3>3 DEF DocsTyped
    <3> QED BY <1>d, <1>c, <2>2, <3>2, <3>3, <3>4 DEF DocsTyped
  <2> QED BY <1>3, <2>1, <2>2 DEF CreateIndex
<1>4. CASE Swap(w)
  <2>1. job[w].index \in fresh
    BY <1>4 DEF Swap, SwapOr, IInv, Shape, SwitchInv, Building, Owner
  <2>2. UNCHANGED <<docs, made>>
    BY <1>4 DEF Swap, SwapOr
  <2>3. \/ UNCHANGED <<served, fresh>>
        \/ /\ served' = (served \ {job[w].original}) \cup {job[w].index}
           /\ fresh' = fresh \ {job[w].index}
    BY <1>4 DEF Swap, SwapOr
  <2> QED BY <1>d, <1>c, <2>1, <2>2, <2>3 DEF DocsTyped
<1>5. CASE Replace(w) \/ DropOriginal(w) \/ Cleanup(w)
  <2>1. made' = made
    BY <1>5 DEF Replace, DropOriginal, Cleanup
  <2>2. (\E i : DeleteIndex(i)) \/ UNCHANGED <<docs, served, fresh>>
    BY <1>5 DEF Replace, DropOriginal, Cleanup
  <2> QED BY <1>d, <1>c, <2>1, <2>2, DeletedIndex DEF DocsTyped
<1> QED BY <1>1, <1>2, <1>3, <1>4, <1>5 DEF Step

\* A worker makes no index that was not requested.
LEMMA StepCounted ==
    ASSUME Typed, NEW w \in Workers, Step(w) \/ Crash(w) PROVE Counted'
<1>q. queue \in Seq(Requests) /\ reindexes' = reindexes
  BY WorkersReadTheDatabase DEF Typed, QueueTyped
<1>w. Cardinality(Waiting(queue)) \in Nat
  BY <1>q, WaitingReindexes
<1>n. /\ made \in Nat /\ IsFiniteSet(Creating) /\ Cardinality(Creating) \in Nat
      /\ reindexes \in Nat /\ reindexes <= MaxReindexes
      /\ made + Cardinality(Creating) + Cardinality(Waiting(queue)) <= 1 + reindexes
  BY FS_CardinalityType DEF Typed, DocsTyped, Counted
<1>f. \A v \in Workers : job'[v] = job[v] \/ v = w
  BY ZenonT(60) DEF Typed, JobsTyped, Step, Crash, Take, Find, Erase, Load, Write, CreateIndex, Page, Resolve, Replace,
   Swap, SwapOr, DropOriginal, Cleanup, To
<1> DEFINE others == Creating \ {w}
<1>o. IsFiniteSet(others) /\ Cardinality(others) <= Cardinality(Creating) /\ Cardinality(others) \in Nat
      /\ (w \in Creating => Cardinality(others) = Cardinality(Creating) - 1)
      /\ (w \notin Creating => others = Creating)
      /\ w \notin others
  <2>1. IsFiniteSet(others) /\ (w \in Creating => Cardinality(others) = Cardinality(Creating) - 1)
    BY <1>n, FS_RemoveElement
  <2>2. w \notin Creating => others = Creating
    OBVIOUS
  <2>3. Cardinality(others) \in Nat
    BY <2>1, FS_CardinalityType
  <2> QED BY <1>n, <2>1, <2>2, <2>3
<1>s. Creating' = IF job'[w].pc = "create" THEN others \cup {w} ELSE others
  BY <1>f DEF Creating
<1> HIDE DEF others
<1>a. IsFiniteSet(others \cup {w}) /\ Cardinality(others \cup {w}) = Cardinality(others) + 1
  BY <1>o, FS_AddElement
<1>1. CASE Take(w)
  <2>1. /\ queue # <<>> /\ queue' = Tail(queue) /\ w \notin Creating /\ made' = made
    BY <1>1 DEF Take, Creating, indices
  <2>2. job'[w].pc = "create" <=> Head(queue).kind = "reindex"
    BY <1>1 DEF Take, To, Idle, Typed, JobsTyped
  <2>3. Cardinality(Waiting(queue')) + (IF Head(queue).kind = "reindex" THEN 1 ELSE 0)
           <= Cardinality(Waiting(queue)) /\ Cardinality(Waiting(queue')) \in Nat
    <3>1. queue' \in Seq(Requests)
      BY <1>q, <2>1
    <3> QED BY <1>q, <2>1, <3>1, WaitingReindexes
  <2>4. made' + Cardinality(Creating') + Cardinality(Waiting(queue')) <= 1 + reindexes
    BY <1>w, <1>n, <1>o, <1>s, <1>a, <2>1, <2>2, <2>3
  <2> QED BY <1>q, <1>n, <1>o, <1>s, <1>a, <2>4 DEF Counted
<1>2. CASE CreateIndex(w)
  <2>1. job'[w].pc # "create" /\ w \in Creating
    BY <1>2, CreateJobs DEF CreateIndex, Creating
  <2>2. made' \in {made, made + 1} /\ queue' = queue
    BY <1>2 DEF CreateIndex
  <2>3. made' + Cardinality(Creating') + Cardinality(Waiting(queue')) <= 1 + reindexes
    BY <1>w, <1>n, <1>o, <1>s, <2>1, <2>2
  <2> QED BY <1>q, <1>n, <1>o, <1>s, <2>1, <2>3 DEF Counted
<1>3. CASE ~Take(w) /\ ~CreateIndex(w)
  <2>1. /\ made' = made /\ queue' = queue /\ job'[w].pc # "create"
    <3>1. made' = made /\ \E j : WellFormed(j) /\ To(w, j) /\ (j.pc = "create" => Take(w))
      BY <1>3, StepJobs
    <3>2. queue' = queue
      BY <1>3, WorkersReadTheDatabase
    <3> QED BY <1>3, <3>1, <3>2 DEF To, Typed, JobsTyped
  <2>2. made' + Cardinality(Creating') + Cardinality(Waiting(queue')) <= 1 + reindexes
    BY <1>w, <1>n, <1>o, <1>s, <2>1
  <2> QED BY <1>q, <1>n, <1>o, <1>s, <2>1, <2>2 DEF Counted
<1> QED BY <1>1, <1>2, <1>3

\* The workers keep the types.
LEMMA StepTyped ==
    ASSUME Typed, IInv, NEW w \in Workers, Step(w) \/ Crash(w) PROVE Typed'
<1>1. DbTyped'
  BY WorkersReadTheDatabase DEF Typed, DbTyped, Rows, Versions
<1>2. QueueTyped'
  <2>1. queue' = queue \/ (queue # <<>> /\ queue' = Tail(queue))
    BY WorkersReadTheDatabase DEF Take
  <2>2. queue' \in Seq(Requests)
    BY <2>1 DEF Typed, QueueTyped
  <2> QED BY <2>2 DEF QueueTyped, Requests, ReindexJob
<1>3. JobsTyped'
  <2>1. CASE CreateIndex(w)
    BY <2>1, CreateJobs
  <2>2. CASE ~CreateIndex(w)
    <3>1. made' = made /\ \E j : WellFormed(j) /\ To(w, j)
      BY <2>2, StepJobs
    <3> QED BY <3>1, JobMoves DEF Typed
  <2> QED BY <2>1, <2>2
<1> QED BY <1>1, <1>2, <1>3, StepDocs, StepCounted DEF Typed

\* The shop starts with an index of its products, or with none.
LEMMA InitTyped == Init => Typed
<1> SUFFICES ASSUME Init PROVE Typed
  OBVIOUS
<1>1. PICK k \in 0 .. NProducts :
        /\ db = [p \in Products |->
                    IF p <= k THEN [live |-> TRUE, version |-> 1, channels |-> {Default}]
                    ELSE NoRow]
        /\ docs = [i \in served |-> [p \in Products |-> [c \in Channels |->
                    IF p <= k /\ c = Default THEN 1 ELSE 0]]]
  BY DEF Init
<1>2. /\ queue = <<>> /\ served \in {{1}, {0}, {}} /\ fresh = {} /\ made = 1
      /\ job = [w \in Workers |-> Idle] /\ changes = 0 /\ reindexes = 0
  BY DEF Init
<1>3. 0 \in Versions /\ 1 \in Versions
  BY BoundAssumption DEF Versions
<1>4. NoRow \in Rows /\ NoRow.version = 0 /\ [live |-> TRUE, version |-> 1, channels |-> {Default}] \in Rows
  BY <1>3, ShopAssumption DEF NoRow, Rows
<1>5. DbTyped
  BY <1>1, <1>2, <1>4, BoundAssumption DEF DbTyped
<1>6. DocsTyped
  BY <1>1, <1>2, <1>3 DEF DocsTyped, Contents
<1>7. JobsTyped
  BY <1>2, IdleWellFormed DEF JobsTyped, WellFormed
<1>8. Creating = {} /\ Waiting(queue) = {}
  BY <1>2 DEF Creating, Waiting, Idle
<1>9. Counted
  BY <1>2, <1>8, FS_EmptySet, BoundAssumption DEF Counted
<1> QED BY <1>2, <1>5, <1>6, <1>7, <1>9 DEF Typed, QueueTyped

\* Each step keeps the types.
LEMMA NextTyped == Typed /\ IInv /\ [Next]_vars => Typed'
<1> SUFFICES ASSUME Typed, IInv, [Next]_vars PROVE Typed'
  OBVIOUS
<1>1. CASE UNCHANGED vars
  BY <1>1 DEF vars, Typed, DbTyped, QueueTyped, DocsTyped, JobsTyped, Counted, WellFormed, Jobs, Rows,
     Versions, Requests, ReindexJob, Contents, Creating
<1> QED BY <1>1, AdminTyped, StepTyped DEF Next

\* Every variable keeps its type, and no more indices are made than reindexes
\* were requested: a page of a reindex is products that are there, and the
\* aliases are on indices that exist.
THEOREM IndexerTypes == Spec => []TypeOK
<1>1. Typed => TypeOK
  <2> SUFFICES ASSUME Typed PROVE TypeOK
    OBVIOUS
  <2>1. Cardinality(Creating) \in Nat /\ Cardinality(Waiting(queue)) \in Nat
    BY FS_CardinalityType, WaitingReindexes DEF Typed, Counted, QueueTyped
  <2>2. made \in 1 .. MaxReindexes + 1
    BY <2>1, BoundAssumption DEF Typed, Counted, DocsTyped
  <2> QED BY <2>2 DEF Typed, DbTyped, QueueTyped, DocsTyped, JobsTyped, TypeOK, Requests, Contents,
        WellFormed
<1> QED BY <1>1, InitIInv, NextIInv, InitTyped, NextTyped, PTL DEF Spec

-----------------------------------------------------------------------------
\* An index with a reindex alias is the one that its worker builds; one that has
\* neither alias is about to be deleted by the worker that took it off the live one.
InHand ==
    failures = 0 /\ crashes = 0 =>
        \A i \in DOMAIN docs \ served :
            \/ i \in fresh /\ \E w \in Workers : Owner(w) /\ job[w].index = i
            \/ i \notin fresh /\ \E w \in Workers : job[w].pc = "drop" /\ job[w].original = i

\* Failing calls and crashes are counted.
Faults == failures \in Nat /\ crashes \in Nat

\* Without a fault a step is one of the admins or a worker's own.
LEMMA CountedFaults ==
    ASSUME Faults, Typed, [Next]_vars
    PROVE  /\ Faults'
           /\ failures' = 0 /\ crashes' = 0 =>
                 /\ failures = 0 /\ crashes = 0
                 /\ Admin \/ (\E w \in Workers : Step(w)) \/ UNCHANGED vars
<1>1. CASE Admin \/ UNCHANGED vars
  <2>1. UNCHANGED <<failures, crashes>>
    BY <1>1, AdminSteps DEF vars
  <2> QED BY <1>1, <2>1 DEF Faults
<1>2. ASSUME NEW w \in Workers, Step(w)
      PROVE  crashes' = crashes /\ failures' \in {failures, failures + 1}
  BY <1>2, ZenonT(60) DEF Step, Take, Find, Erase, Load, Write, CreateIndex, Page, Resolve, Replace,
     Swap, SwapOr, DropOriginal, Cleanup, Bulk, MakesIndex, Fail, faults
<1>3. ASSUME NEW w \in Workers, Crash(w)
      PROVE  crashes' = crashes + 1 /\ failures' = failures
  BY <1>3 DEF Crash
<1>4. Faults'
  BY <1>1, <1>2, <1>3 DEF Next, Faults
<1> QED
  BY <1>1, <1>2, <1>3, <1>4 DEF Next, Faults

\* A worker keeps the index it builds until it cleans up.
LEMMA OwnersGoOn ==
    ASSUME Typed, IInv, NEW w \in Workers, Step(w), Owner(w), ~Cleanup(w)
    PROVE  Owner(w)' /\ job'[w].index = job[w].index
<1>1. /\ job[w] \in Jobs /\ job[w].kind = "reindex"
      /\ job[w].pc \notin {"create", "idle", "find", "erase"}
      /\ \A j : To(w, j) => job'[w] = j
  BY DEF Typed, JobsTyped, WellFormed, Owner, To, IInv, Shape
<1>2. \A j \in Jobs : j.kind = "reindex" =>
          /\ AfterProduct(j).kind = "reindex" /\ AfterProduct(j).index = j.index
          /\ AfterProduct(j).pc # "create"
  BY DEF AfterProduct, Jobs
<1> DEFINE GoesOn(j) == j.kind = "reindex" /\ j.pc # "create" /\ j.index = job[w].index
<1>3. SUFFICES \E j : To(w, j) /\ GoesOn(j)
  BY <1>1 DEF Owner
<1>4. CASE Load(w)
  <2>1. CASE To(w, AfterProduct(job[w]))
    BY <1>1, <1>2, <2>1
  <2>2. CASE To(w, [job[w] EXCEPT !.pc = "write", !.read = db[job[w].product]])
    <3>1. PICK j : j = [job[w] EXCEPT !.pc = "write", !.read = db[job[w].product]]
      OBVIOUS
    <3>2. j.kind = job[w].kind /\ j.index = job[w].index /\ j.pc = "write"
      BY <1>1, <3>1 DEF Jobs
    <3> QED BY <1>1, <2>2, <3>1, <3>2
  <2> QED BY <1>4, <2>1, <2>2 DEF Load
<1>5. CASE Write(w)
  <2>1. PICK k : k = [job[w] EXCEPT !.read = NoRow]
    OBVIOUS
  <2>2. 0 \in Versions
    BY BoundAssumption DEF Versions
  <2>3. NoRow \in Rows
    BY <2>2 DEF NoRow, Rows
  <2>4. k \in Jobs /\ k.kind = job[w].kind /\ k.index = job[w].index
    BY <1>1, <2>1, <2>3 DEF Jobs
  <2>5. To(w, AfterProduct(k))
    BY <1>5, <2>1 DEF Write
  <2> QED BY <1>1, <1>2, <2>4, <2>5
<1>6. CASE Page(w)
  <2>1. PICK k, page, full :
            /\ page = LivePage(job[w].skip) /\ full = (Len(page) >= ChunkSize)
            /\ k = [job[w] EXCEPT !.todo = page, !.skip = @ + ChunkSize, !.full = full]
    OBVIOUS
  <2>2. k.kind = "reindex" /\ k.index = job[w].index
    BY <1>1, <2>1 DEF Jobs
  <2>3. AfterProduct(k).kind = "reindex" /\ AfterProduct(k).index = k.index
        /\ AfterProduct(k).pc # "create"
    <3>1. Fields \subseteq DOMAIN k
      BY <1>1, <2>1 DEF Jobs, Fields
    <3> QED BY <2>2, <3>1, AfterProductOfReindex
  <2>4. To(w, AfterProduct(k))
    BY <1>6, <2>1 DEF Page
  <2> QED BY <2>2, <2>3, <2>4
<1>7. CASE Resolve(w)
  <2>3. PICK pc \in {"swap", "replace"} :
            \/ \E o : To(w, [job[w] EXCEPT !.pc = pc, !.original = o])
            \/ To(w, [job[w] EXCEPT !.pc = pc])
    BY <1>7 DEF Resolve
  <2>1. PICK j : /\ To(w, j)
                 /\ \/ \E o : j = [job[w] EXCEPT !.pc = pc, !.original = o]
                    \/ j = [job[w] EXCEPT !.pc = pc]
    BY <2>3
  <2>2. j.kind = job[w].kind /\ j.index = job[w].index /\ j.pc = pc
    BY <1>1, <2>1 DEF Jobs
  <2> QED BY <1>1, <2>1, <2>2
<1>8. CASE Replace(w) \/ Swap(w) \/ DropOriginal(w)
  <2>1. PICK pc \in {"swap", "drop", "cleanup"} : To(w, [job[w] EXCEPT !.pc = pc])
    BY <1>8 DEF Replace, Swap, SwapOr, DropOriginal
  <2>2. PICK j : j = [job[w] EXCEPT !.pc = pc]
    OBVIOUS
  <2>3. j.kind = job[w].kind /\ j.index = job[w].index /\ j.pc = pc
    BY <1>1, <2>2 DEF Jobs
  <2> QED BY <1>1, <2>1, <2>2, <2>3
<1> QED BY <1>1, <1>4, <1>5, <1>6, <1>7, <1>8 DEF Step, Take, Find, Erase, CreateIndex

\* The steps that make and delete no index but one with the live name.
LEMMA InHandStays ==
    ASSUME InHand, failures = 0, crashes = 0,
           DOMAIN docs' \ served' \subseteq DOMAIN docs \ served, UNCHANGED fresh,
           \A w \in Workers : Owner(w) => Owner(w)' /\ job'[w].index = job[w].index,
           \A w \in Workers : job[w].pc = "drop" => job'[w] = job[w]
    PROVE  InHand'
<1> SUFFICES ASSUME NEW i \in DOMAIN docs' \ served'
             PROVE  \/ i \in fresh' /\ \E w \in Workers : Owner(w)' /\ job'[w].index = i
                    \/ i \notin fresh' /\ \E w \in Workers : job'[w].pc = "drop" /\ job'[w].original = i
  BY DEF InHand
<1> QED BY DEF InHand

\* Each step keeps the indices in hand.
LEMMA NextInHand == Typed /\ IInv /\ Faults /\ InHand /\ [Next]_vars => InHand'
<1> SUFFICES ASSUME Typed, IInv, Faults, InHand, [Next]_vars, failures' = 0, crashes' = 0
             PROVE  InHand'
  BY DEF InHand
<1>0. failures = 0 /\ crashes = 0 /\ (Admin \/ (\E w \in Workers : Step(w)) \/ UNCHANGED vars)
  BY CountedFaults
<1>1. CASE Admin \/ UNCHANGED vars
  <2>1. UNCHANGED <<docs, served, fresh, job>>
    BY <1>1, AdminSteps DEF vars
  <2> QED BY <1>0, <2>1 DEF InHand, Owner
<1>2. ASSUME NEW w \in Workers, Step(w) PROVE InHand'
  <2>f. \A v \in Workers : v # w => job'[v] = job[v]
    BY <1>2, ZenonT(60) DEF Typed, JobsTyped, Step, Take, Find, Erase, Load, Write, CreateIndex, Page,
       Resolve, Replace, Swap, SwapOr, DropOriginal, Cleanup, To
  <2>o. \A v \in Workers : Owner(v) => (Owner(v)' /\ job'[v].index = job[v].index) \/ (v = w /\ Cleanup(w))
    BY <1>2, <2>f, OwnersGoOn DEF Owner
  <2>s. /\ \A v \in Workers : Owner(v) => job[v].index <= made
        /\ \A i \in fresh : i \in DOMAIN docs /\ i \notin served
        /\ \A v \in Workers : Building(v) => job[v].index \in fresh
        /\ \A v, u \in Workers : Owner(v) /\ Owner(u) /\ u # v => job[v].index # job[u].index
    BY DEF Typed, DocsTyped, IInv, SwitchInv
  <2>t. \A j : To(w, j) => job'[w] = j
    BY DEF To, Typed, JobsTyped
  <2>1. CASE \/ Take(w) \/ Find(w) \/ Erase(w) \/ Load(w) \/ Write(w) \/ Page(w) \/ Resolve(w)
             \/ Replace(w)
    <3>1. DOMAIN docs' \ served' \subseteq DOMAIN docs \ served /\ UNCHANGED fresh
      <4>1. CASE Take(w) \/ Find(w) \/ Erase(w) \/ Load(w) \/ Page(w) \/ Resolve(w)
        <5>1. DOMAIN docs' = DOMAIN docs /\ UNCHANGED <<served, fresh>>
          BY <4>1 DEF Take, Find, Erase, Load, Page, Resolve, indices, Bulk
        <5> QED BY <5>1
      <4>2. CASE Write(w)
        <5>1. CASE MakesIndex(job[w])
          BY <4>2, <5>1 DEF Write, MakesIndex
        <5>2. CASE ~MakesIndex(job[w])
          <6>1. DOMAIN docs' = DOMAIN docs /\ UNCHANGED <<served, fresh>>
            BY <4>2, <5>2 DEF Write, Bulk
          <6> QED BY <6>1
        <5> QED BY <5>1, <5>2
      <4>3. CASE Replace(w)
        <5>1. CASE UNCHANGED <<docs, served, fresh>>
          BY <5>1
        <5>2. CASE 0 \in served /\ DeleteIndex(0)
          BY <5>2 DEF DeleteIndex, Restrict, IInv, SwitchInv
        <5> QED BY <4>3, <5>1, <5>2 DEF Replace
      <4> QED BY <2>1, <4>1, <4>2, <4>3
    <3>2. job[w].pc # "drop" /\ ~Cleanup(w)
      BY <2>1 DEF Take, Find, Erase, Load, Write, Page, Resolve, Replace, Cleanup
    <3> QED BY <1>0, <2>f, <2>o, <3>1, <3>2, InHandStays
  <2>2. CASE CreateIndex(w)
    <3>1. /\ made' = made + 1 /\ DOMAIN docs' = DOMAIN docs \cup {made + 1}
          /\ fresh' = fresh \cup {made + 1} /\ served' = served
          /\ To(w, [job[w] EXCEPT !.pc = "page", !.index = made + 1])
      BY <1>0, <2>2 DEF CreateIndex, Fail
    <3>2. job[w] \in Jobs /\ job[w].kind = "reindex" /\ job[w].pc = "create"
      BY <2>2 DEF CreateIndex, Typed, JobsTyped, IInv, Shape
    <3>3. Owner(w)' /\ job'[w].index = made + 1
      BY <2>t, <3>1, <3>2 DEF Owner, Jobs
    <3>4. made + 1 \notin DOMAIN docs
      BY DEF Typed, DocsTyped
    <3>5. \A v \in Workers : Owner(v) => Owner(v)' /\ job'[v].index = job[v].index
      BY <2>o, <3>2 DEF Cleanup
    <3>6. \A v \in Workers : job[v].pc = "drop" => job'[v] = job[v]
      BY <2>f, <3>2
    <3>7. ASSUME NEW i \in DOMAIN docs' \ served'
          PROVE  \/ i \in fresh' /\ \E v \in Workers : Owner(v)' /\ job'[v].index = i
                 \/ i \notin fresh' /\ \E v \in Workers : job'[v].pc = "drop" /\ job'[v].original = i
      <4>1. CASE i = made + 1
        BY <3>1, <3>3, <4>1
      <4>2. CASE i \in DOMAIN docs \ served
        BY <1>0, <3>1, <3>4, <3>5, <3>6, <4>2 DEF InHand
      <4> QED BY <3>1, <3>7, <4>1, <4>2
    <3> QED BY <3>7 DEF InHand
  <2>3. CASE Swap(w)
    <3>1. /\ job[w] \in Jobs /\ job[w].pc = "swap" /\ docs' = docs
          /\ job[w].index \in fresh /\ job[w].original \notin fresh
      BY <2>3 DEF Swap, SwapOr, Typed, JobsTyped, IInv, Shape, SwitchInv, Building, Owner
    <3>2. \A v \in Workers : Owner(v) => Owner(v)' /\ job'[v].index = job[v].index
      BY <2>o, <3>1 DEF Cleanup
    <3>3. \A v \in Workers : job[v].pc = "drop" => job'[v] = job[v]
      BY <2>f, <3>1
    <3>4. CASE UNCHANGED <<served, fresh>>
      BY <1>0, <3>1, <3>2, <3>3, <3>4, InHandStays
    <3>5. CASE /\ 0 \notin served
               /\ served' = (served \ {job[w].original}) \cup {job[w].index}
               /\ fresh' = fresh \ {job[w].index}
               /\ To(w, [job[w] EXCEPT !.pc = IF job[w].original = 0 THEN "cleanup" ELSE "drop"])
      <4>1. job[w].original # 0 => job'[w].pc = "drop" /\ job'[w].original = job[w].original
        BY <2>t, <3>1, <3>5 DEF Jobs
      <4>2. ASSUME NEW i \in DOMAIN docs' \ served'
            PROVE  \/ i \in fresh' /\ \E v \in Workers : Owner(v)' /\ job'[v].index = i
                   \/ i \notin fresh' /\ \E v \in Workers : job'[v].pc = "drop" /\ job'[v].original = i
        <5>1. CASE i = job[w].original /\ i # 0
          BY <3>1, <3>5, <4>1, <5>1
        <5>2. CASE i # job[w].original \/ i = 0
          <6>1. i \in DOMAIN docs \ served /\ i # job[w].index
            BY <3>1, <3>5, <4>2, <5>2
          <6> QED BY <1>0, <3>2, <3>3, <3>5, <6>1 DEF InHand
        <5> QED BY <5>1, <5>2
      <4> QED BY <4>2 DEF InHand
    <3> QED BY <2>3, <3>4, <3>5 DEF Swap, SwapOr
  <2>4. CASE DropOriginal(w)
    <3>1. /\ job[w].pc = "drop" /\ job[w].original \notin fresh \cup served
          /\ DeleteIndex(job[w].original)
      BY <1>0, <2>4 DEF DropOriginal, IInv, SwitchInv, Fail
    <3>2. /\ DOMAIN docs' = DOMAIN docs \ {job[w].original}
          /\ served' = served /\ fresh' = fresh
      BY <3>1 DEF DeleteIndex, Restrict
    <3>3. \A v \in Workers : Owner(v) => Owner(v)' /\ job'[v].index = job[v].index
      BY <2>o, <3>1 DEF Cleanup
    <3>4. ASSUME NEW i \in DOMAIN docs' \ served'
          PROVE  \/ i \in fresh' /\ \E v \in Workers : Owner(v)' /\ job'[v].index = i
                 \/ i \notin fresh' /\ \E v \in Workers : job'[v].pc = "drop" /\ job'[v].original = i
      <4>1. i \in DOMAIN docs \ served /\ i # job[w].original
        BY <3>2, <3>4
      <4> QED BY <1>0, <2>f, <3>2, <3>3, <4>1 DEF InHand
    <3> QED BY <3>4 DEF InHand
  <2>5. CASE Cleanup(w)
    <3>1. job[w].pc = "cleanup" /\ Owner(w)
      BY <2>5 DEF Cleanup, IInv, Shape, Owner
    <3>2. IF job[w].index \in fresh THEN DeleteIndex(job[w].index)
                                    ELSE UNCHANGED <<docs, served, fresh>>
      BY <1>0, <2>5 DEF Cleanup, Fail
    <3>3. \A i \in fresh' : i \in fresh /\ i # job[w].index
      BY <3>2 DEF DeleteIndex
    <3>4. /\ DOMAIN docs' \subseteq DOMAIN docs /\ served' = served
          /\ \A i \in DOMAIN docs' : i \in fresh => i \in fresh'
      BY <2>s, <3>2 DEF DeleteIndex, Restrict
    <3>5. ASSUME NEW i \in DOMAIN docs' \ served'
          PROVE  \/ i \in fresh' /\ \E v \in Workers : Owner(v)' /\ job'[v].index = i
                 \/ i \notin fresh' /\ \E v \in Workers : job'[v].pc = "drop" /\ job'[v].original = i
      <4>1. i \in DOMAIN docs \ served
        BY <3>4, <3>5
      <4>2. CASE i \in fresh
        <5>1. PICK v \in Workers : Owner(v) /\ job[v].index = i
          BY <1>0, <4>1, <4>2 DEF InHand
        <5>2. i \in fresh' /\ v # w
          BY <3>3, <3>4, <3>5, <4>2, <5>1
        <5> QED BY <2>o, <5>1, <5>2
      <4>3. CASE i \notin fresh
        <5>1. PICK v \in Workers : job[v].pc = "drop" /\ job[v].original = i
          BY <1>0, <4>1, <4>3 DEF InHand
        <5>2. v # w /\ i \notin fresh'
          BY <3>1, <3>3, <4>3, <5>1
        <5> QED BY <2>f, <5>1, <5>2
      <4> QED BY <4>2, <4>3
    <3> QED BY <3>5 DEF InHand
  <2> QED BY <1>2, <2>1, <2>2, <2>3, <2>4, <2>5 DEF Step
<1> QED BY <1>0, <1>1, <1>2

\* An index in a worker's hands belongs to a running reindex.
LEMMA InHandIsNotStray == Typed /\ IInv /\ InHand => NoStrayIndices
<1> SUFFICES ASSUME Typed, IInv, InHand, failures = 0, crashes = 0, NEW i \in DOMAIN docs \ served
             PROVE  \E w \in Reindexing : job[w].pc # "create" /\
                       (job[w].index = i \/ (job[w].pc = "drop" /\ job[w].original = i))
  BY DEF NoStrayIndices
<1>1. PICK w \in Workers : \/ Owner(w) /\ job[w].index = i
                           \/ job[w].pc = "drop" /\ job[w].original = i
  BY DEF InHand
<1>2. job[w].kind = "reindex" /\ job[w].pc # "create" /\ job[w].pc # "idle"
  BY <1>1 DEF Owner, IInv, Shape, Typed, JobsTyped, WellFormed
<1> QED BY <1>1, <1>2 DEF Reindexing, Busy

\* As long as no call fails and no worker dies, reindexes that overlap leave no
\* index behind: each is the served one or in the hands of a running reindex
\* (reindex, switchAlias).
THEOREM NothingIsLeftBehind == Spec => []NoStrayIndices
<1>1. Init => Faults /\ InHand
  BY DEF Init, Faults, InHand
<1>2. Typed /\ Faults /\ [Next]_vars => Faults'
  BY CountedFaults
<1> QED BY <1>1, <1>2, InitIInv, NextIInv, InitTyped, NextTyped, NextInHand, InHandIsNotStray, PTL DEF Spec

-----------------------------------------------------------------------------

\* One worker whose calls succeed, in a shop that starts with its index, where nothing
\* is deleted while a reindex runs and removals from a channel are made in another one.
Alone ==
    /\ "nothing" \notin Starts
    /\ QuietDeletes /\ OutsideRemovals
    /\ MaxFailures = 0 /\ MaxCrashes = 0
    /\ \A v, w \in Workers : v = w

\* A job for the product waits; one waits that will erase its documents.
Queued(p) == \E n \in 1 .. Len(queue) : queue[n].product = p
Erasing(p) ==
    \E n \in 1 .. Len(queue) : queue[n].product = p /\ queue[n].ctx \in db[p].channels

\* A worker's job is for the product; it is about to erase its documents.
Works(j, p) == j.pc # "idle" /\ j.kind # "reindex" /\ j.product = p
Erases(j, p, channels) ==
    Works(j, p) /\ (j.pc = "erase" \/ (j.pc = "find" /\ j.ctx \in channels))

\* A reindex has the product, whose row is r, still before it.
Remains(j, p, r) ==
    \/ \E n \in 1 .. Len(j.todo) : j.todo[n] = p
    \/ j.full /\ r > j.skip
ToDo(j, p, r) ==
    \/ j.pc \in {"load", "write"} /\ (j.product = p \/ Remains(j, p, r))
    \/ j.pc = "page" /\ r > j.skip

\* The index has no document of the product where the product is not; it has none.
Clean(p, i) ==
    \A c \in Channels : docs[i][p][c] # 0 => Live(p) /\ c \in db[p].channels
Blank == [c \in Channels |-> 0]

\* Products are created in order and deleted once.
ShopInv ==
    /\ \A p \in Products : Live(p) => Created(p)
    /\ \A p, q \in Products : Created(p) /\ q < p => Created(q)
    /\ \A n \in 1 .. Len(queue) : queue[n].kind = "delete" =>
          Created(queue[n].product) /\ ~Live(queue[n].product)
    /\ \A w \in Workers : job[w].kind = "delete" =>
          Created(job[w].product) /\ ~Live(job[w].product)

\* One index is served, but for the time between the deletion of an index with the
\* live name and the switch; a reindex that starts or switches knows it.
AliasInv ==
    /\ \/ \E i : served = {i}
       \/ served = {} /\ \E w \in Workers : job[w].pc = "swap"
    /\ \A w \in Workers : /\ job[w].pc = "create" => job[w].skip = 0
                          /\ job[w].pc = "swap" =>
                                /\ 0 \notin served
                                /\ job[w].original \in served
                                   \/ (job[w].original = 0 /\ served = {})

\* What a worker has read is what the database says, and what the served index
\* says of a product is, unless a job for the product is there. An index that is
\* built says it too or the reindex will still write it. None of them has a
\* document of the product where the product is not, unless a job is there that
\* erases all.
ReadInv ==
    \A w \in Workers, p \in Products : job[w].pc = "write" /\ job[w].product = p =>
        /\ Erasing(p) \/ (Live(p) /\ job[w].read.channels \subseteq db[p].channels)
        /\ Queued(p) \/ job[w].read = db[p]
ServeInv ==
    \A p \in Products, i \in served :
        /\ Erasing(p) \/ Clean(p, i) \/ \E w \in Workers : Erases(job[w], p, db[p].channels)
        /\ Queued(p) \/ docs[i][p] = Wanted(p) \/ \E w \in Workers : Works(job[w], p)
BuildInv ==
    \A w \in Workers, p \in Products, i \in DOMAIN docs :
        Building(w) /\ job[w].index = i =>
            /\ Erasing(p) \/ Clean(p, i)
            /\ \/ Queued(p) \/ docs[i][p] = Wanted(p)
               \/ docs[i][p] = Blank /\ Live(p) /\ ToDo(job[w], p, RowNumber(p))

CurrentInv == ShopInv /\ AliasInv /\ ReadInv /\ ServeInv /\ BuildInv

-----------------------------------------------------------------------------
\* One index is served unless the worker is between the two.
LEMMA OneServed ==
    ASSUME Alone, CurrentInv, NEW w \in Workers, job[w].pc # "swap"
    PROVE  \E s : served = {s}
BY DEF Alone, CurrentInv, AliasInv

\* An index without a document of a product that is deleted has what is wanted.
LEMMA NothingLeft ==
    ASSUME Typed, NEW p \in Products, NEW i \in DOMAIN docs, Clean(p, i), ~Live(p)
    PROVE  docs[i][p] = Wanted(p) /\ Wanted(p) = Blank
<1>1. docs[i][p] \in [Channels -> Versions]
  BY DEF Typed, DocsTyped, Contents
<1>2. \A c \in Channels : docs[i][p][c] = 0
  BY DEF Clean
<1>3. docs[i][p] = [c \in Channels |-> docs[i][p][c]]
  BY <1>1
<1>4. docs[i][p] = Blank
  BY <1>2, <1>3 DEF Blank
<1>5. Wanted(p) = Blank
  BY DEF Wanted, Blank
<1> QED BY <1>4, <1>5

\* What the argument says of the products, when a step leaves the database and the
\* queue alone.
LEMMA SameShop ==
    ASSUME UNCHANGED <<db, queue>>, NEW p \in Products
    PROVE  /\ Queued(p)' = Queued(p) /\ Erasing(p)' = Erasing(p)
           /\ Live(p)' = Live(p) /\ Created(p)' = Created(p)
           /\ Wanted(p)' = Wanted(p) /\ RowNumber(p)' = RowNumber(p)
           /\ \A i : docs'[i][p] = docs[i][p] => Clean(p, i)' = Clean(p, i)
BY DEF Queued, Erasing, Live, Created, Wanted, RowNumber, Clean

\* A step of the one worker to the job j, that leaves the database and the queue
\* alone and serves index s.
Reaches(j, s) ==
    /\ j.kind = "delete" => j.product \in Products /\ Created(j.product) /\ ~Live(j.product)
    /\ j.pc = "create" => j.skip = 0
    /\ j.pc = "swap" => j.original = s /\ 0 \notin served'
    /\ \A p \in Products : j.pc = "write" /\ j.product = p =>
          /\ Erasing(p) \/ (Live(p) /\ j.read.channels \subseteq db[p].channels)
          /\ Queued(p) \/ j.read = db[p]

\* The served index afterwards.
Serves(j, s) ==
    \A p \in Products :
        /\ Erasing(p) \/ Clean(p, s)' \/ Erases(j, p, db[p].channels)
        /\ Queued(p) \/ docs'[s][p] = Wanted(p) \/ Works(j, p)

\* The index that the worker builds afterwards.
Builds(j) ==
    j.kind = "reindex" /\ j.pc \notin {"create", "drop", "cleanup"} =>
        \A p \in Products :
            /\ Erasing(p) \/ Clean(p, j.index)'
            /\ \/ Queued(p) \/ docs'[j.index][p] = Wanted(p)
               \/ docs'[j.index][p] = Blank /\ Live(p) /\ ToDo(j, p, RowNumber(p))

\* Such a step keeps the invariant.
LEMMA StepCurrent ==
    ASSUME Alone, Typed, CurrentInv, UNCHANGED <<db, queue>>,
           NEW w \in Workers, NEW j, To(w, j), NEW s,
           served' = {s} \/ (served' = {} /\ j.pc = "swap" /\ j.original = 0),
           Reaches(j, s), served' = {s} => Serves(j, s), Builds(j)
    PROVE  CurrentInv'
<1>1. \A v \in Workers : v = w /\ job'[v] = j
  BY DEF Alone, Typed, JobsTyped, To
<1>2. \A p \in Products :
          /\ Queued(p)' = Queued(p) /\ Erasing(p)' = Erasing(p)
          /\ Live(p)' = Live(p) /\ Created(p)' = Created(p)
          /\ Wanted(p)' = Wanted(p) /\ RowNumber(p)' = RowNumber(p)
  BY SameShop
<1>3. ShopInv'
  <2>1. \A n \in 1 .. Len(queue) : queue[n].kind = "delete" => queue[n].product \in Products
    BY DEF Typed, QueueTyped, Requests, ReindexJob
  <2>2. \A p, q \in Products : Live(p)' => Created(p)'
    BY <1>2 DEF CurrentInv, ShopInv
  <2>3. \A p, q \in Products : Created(p)' /\ q < p => Created(q)'
    BY <1>2 DEF CurrentInv, ShopInv
  <2>4. (\A n \in 1 .. Len(queue) : queue[n].kind = "delete" =>
            Created(queue[n].product) /\ ~Live(queue[n].product))'
    BY DEF CurrentInv, ShopInv, Created, Live
  <2>5. (\A v \in Workers : job[v].kind = "delete" =>
            Created(job[v].product) /\ ~Live(job[v].product))'
    BY <1>1 DEF Reaches, Created, Live
  <2> QED BY <2>2, <2>3, <2>4, <2>5 DEF ShopInv
<1>4. AliasInv'
  BY <1>1 DEF AliasInv, Reaches
<1>5. ReadInv'
  BY <1>1, <1>2 DEF ReadInv, Reaches
<1>6. ServeInv'
  BY <1>1, <1>2 DEF ServeInv, Serves
<1>7. BuildInv'
  BY <1>1, <1>2 DEF BuildInv, Builds, Building, Owner
<1> QED BY <1>3, <1>4, <1>5, <1>6, <1>7 DEF CurrentInv

-----------------------------------------------------------------------------
\* No call fails and no worker dies.
LEMMA NoFaults == ASSUME Alone, Faults PROVE ~Fail /\ \A w \in Workers : ~Crash(w)
BY DEF Alone, Faults, Fail, Crash

\* What waits and will erase, waits.
LEMMA ErasingWaits == \A p : Erasing(p) => Queued(p)
BY DEF Erasing, Queued

\* A request changes the documents of one product in one index.
LEMMA BulkWritten ==
    ASSUME Alone, Faults, DocsTyped, NEW j, NEW content, Bulk(j, content),
           NEW t \in DOMAIN docs, WriteTarget(j) = {t}, j.product \in Products
    PROVE  /\ DOMAIN docs' = DOMAIN docs
           /\ docs'[t][j.product] = content[t]
           /\ \A i \in DOMAIN docs, q \in Products :
                 i # t \/ q # j.product => docs'[i][q] = docs[i][q]
BY NoFaults DEF Bulk, DocsTyped, Contents

\* A step of a job for a product: of the served index, it changes the documents of
\* that product.
LEMMA ProductStep ==
    ASSUME Alone, Typed, CurrentInv, UNCHANGED <<db, queue, served>>,
           NEW s, served = {s}, NEW w \in Workers, NEW p \in Products,
           job[w].kind # "reindex", job[w].product = p,
           NEW j, To(w, j), Reaches(j, s), j.kind # "reindex",
           \A q \in Products \ {p} : docs'[s][q] = docs[s][q],
           Erasing(p) \/ Clean(p, s)' \/ Erases(j, p, db[p].channels),
           Queued(p) \/ docs'[s][p] = Wanted(p) \/ Works(j, p)
    PROVE  CurrentInv'
<1>1. Builds(j)
  BY DEF Builds
<1>2. ASSUME NEW q \in Products, q # p
      PROVE  /\ Erasing(q) \/ Clean(q, s)'
             /\ Queued(q) \/ docs'[s][q] = Wanted(q)
  <2>1. \A v \in Workers : ~Works(job[v], q) /\ ~Erases(job[v], q, db[q].channels)
    BY <1>2 DEF Alone, Works, Erases
  <2>2. /\ Erasing(q) \/ Clean(q, s)
        /\ Queued(q) \/ docs[s][q] = Wanted(q)
    BY <2>1 DEF CurrentInv, ServeInv
  <2>3. docs'[s][q] = docs[s][q]
    BY <1>2
  <2>4. Clean(q, s)' = Clean(q, s)
    BY <2>3, SameShop
  <2> QED BY <2>2, <2>3, <2>4
<1>3. Serves(j, s)
  BY <1>2 DEF Serves
<1> QED BY <1>1, <1>3, StepCurrent

\* Where a job for a product is.
LEMMA ProductJobs ==
    ASSUME Alone, Typed, CurrentInv, NEW w \in Workers, NEW p, p = job[w].product,
           job[w].kind # "reindex", job[w].pc \in {"find", "erase", "load", "write"},
           NEW s, served = {s}
    PROVE  /\ job[w] \in Jobs /\ p \in Products /\ s \in DOMAIN docs
           /\ docs[s][p] \in [Channels -> Versions]
           /\ WriteTarget(job[w]) = {s}
           /\ Erasing(p) \/ Clean(p, s) \/ Erases(job[w], p, db[p].channels)
           /\ job[w].kind = "delete" => Created(p) /\ ~Live(p)
           /\ job[w].pc = "write" =>
                 /\ Erasing(p) \/ (Live(p) /\ job[w].read.channels \subseteq db[p].channels)
                 /\ Queued(p) \/ job[w].read = db[p]
<1>1. job[w] \in Jobs /\ p \in Products
  BY DEF Typed, JobsTyped, WellFormed
<1>2. s \in DOMAIN docs
  BY DEF Typed, DocsTyped
<1>3. docs[s][p] \in [Channels -> Versions]
  BY <1>1, <1>2 DEF Typed, DocsTyped, Contents
<1>4. WriteTarget(job[w]) = {s}
  BY FS_Singleton DEF WriteTarget
<1>5. Erasing(p) \/ Clean(p, s) \/ Erases(job[w], p, db[p].channels)
  <2>1. Erasing(p) \/ Clean(p, s) \/ \E v \in Workers : Erases(job[v], p, db[p].channels)
    BY <1>1 DEF CurrentInv, ServeInv
  <2>2. \A v \in Workers : v = w
    BY DEF Alone
  <2> QED BY <2>1, <2>2
<1>6. job[w].kind = "delete" => Created(p) /\ ~Live(p)
  BY DEF CurrentInv, ShopInv
<1> QED BY <1>1, <1>2, <1>3, <1>4, <1>5, <1>6 DEF CurrentInv, ReadInv

\* The idle worker promises nothing, and a job that goes on keeps its promises.
LEMMA IdleReaches == ASSUME NEW s PROVE Reaches(Idle, s) /\ Idle.kind # "reindex"
BY DEF Reaches, Idle

\* When the product is not in the channel of the job there is nothing of it to erase
\* that another job will not erase.
LEMMA FindCurrent ==
    ASSUME Alone, Typed, IInv, CurrentInv, NEW w \in Workers, Find(w)
    PROVE  CurrentInv'
<1>1. PICK s : served = {s}
  BY OneServed DEF Find
<1>2. PICK p : p = job[w].product
  OBVIOUS
<1>3. job[w].pc = "find" /\ job[w].kind # "reindex"
  BY DEF Find, IInv, Shape
<1>4. UNCHANGED <<db, queue, docs, served>>
  BY DEF Find, admin, indices
<1>5. /\ job[w] \in Jobs /\ p \in Products /\ s \in DOMAIN docs
      /\ Erasing(p) \/ Clean(p, s) \/ Erases(job[w], p, db[p].channels)
      /\ job[w].kind = "delete" => Created(p) /\ ~Live(p)
  BY <1>1, <1>2, <1>3, ProductJobs
<1>6. Clean(p, s)' = Clean(p, s)
  BY <1>4, <1>5, SameShop
<1>7. CASE job[w].ctx \in db[p].channels
  <2>1. PICK j : j = [job[w] EXCEPT !.pc = "erase"]
    OBVIOUS
  <2>2. To(w, j)
    BY <1>2, <1>7, <2>1 DEF Find
  <2>3. j.pc = "erase" /\ j.kind = job[w].kind /\ j.product = p
    BY <1>2, <1>5, <2>1 DEF Jobs
  <2>4. Reaches(j, s) /\ Works(j, p) /\ Erases(j, p, db[p].channels)
    BY <1>3, <1>5, <2>3 DEF Reaches, Works, Erases
  <2> QED BY <1>1, <1>2, <1>3, <1>4, <1>5, <2>2, <2>3, <2>4, ProductStep
<1>8. CASE job[w].ctx \notin db[p].channels
  <2>1. Erasing(p) \/ Clean(p, s)
    BY <1>3, <1>5, <1>8 DEF Erases
  <2>2. CASE job[w].kind = "delete"
    <3>1. To(w, Idle)
      BY <1>2, <1>8, <2>2 DEF Find, AfterErase
    <3>2. Queued(p) \/ docs[s][p] = Wanted(p)
      BY <1>5, <2>1, <2>2, ErasingWaits, NothingLeft
    <3>3. Queued(p) \/ docs'[s][p] = Wanted(p)
      BY <1>4, <3>2
    <3> QED BY <1>1, <1>2, <1>3, <1>4, <1>5, <1>6, <2>1, <3>1, <3>3, IdleReaches, ProductStep
  <2>3. CASE job[w].kind # "delete"
    <3>1. PICK j : j = [job[w] EXCEPT !.pc = "load"]
      OBVIOUS
    <3>2. To(w, j)
      BY <1>2, <1>8, <2>3, <3>1 DEF Find, AfterErase
    <3>3. j.pc = "load" /\ j.kind = job[w].kind /\ j.product = p
      BY <1>2, <1>5, <3>1 DEF Jobs
    <3>4. Reaches(j, s) /\ Works(j, p)
      BY <1>3, <2>3, <3>3 DEF Reaches, Works
    <3> QED BY <1>1, <1>2, <1>3, <1>4, <1>5, <1>6, <2>1, <3>2, <3>3, <3>4, ProductStep
  <2> QED BY <2>2, <2>3
<1> QED BY <1>7, <1>8

\* A job that erases makes the served index clean; a job that deletes is done then.
LEMMA EraseCurrent ==
    ASSUME Alone, Typed, IInv, Faults, CurrentInv, NEW w \in Workers, Erase(w)
    PROVE  CurrentInv'
<1>1. PICK s : served = {s}
  BY OneServed DEF Erase
<1>2. PICK p : p = job[w].product
  OBVIOUS
<1>3. job[w].pc = "erase" /\ job[w].kind # "reindex"
  BY DEF Erase, IInv, Shape
<1>4. UNCHANGED <<db, queue, served>>
  BY DEF Erase, admin
<1>5. /\ job[w] \in Jobs /\ p \in Products /\ s \in DOMAIN docs /\ WriteTarget(job[w]) = {s}
      /\ job[w].kind = "delete" => Created(p) /\ ~Live(p)
  BY <1>1, <1>2, <1>3, ProductJobs
<1>6. PICK content : /\ Bulk(job[w], content)
                     /\ content = [i \in DOMAIN docs |-> [c \in Channels |-> 0]]
  BY DEF Erase
<1>7. /\ docs'[s][p] = content[s]
      /\ \A q \in Products \ {p} : docs'[s][q] = docs[s][q]
  <2>1. DocsTyped
    BY DEF Typed
  <2> QED BY <1>2, <1>5, <1>6, <2>1, BulkWritten
<1>8. docs'[s][p] = Blank
  BY <1>5, <1>6, <1>7 DEF Blank
<1>9. Clean(p, s)'
  BY <1>8 DEF Clean, Blank
<1>10. CASE job[w].kind = "delete"
  <2>1. To(w, Idle)
    BY <1>10 DEF Erase, AfterErase
  <2>2. docs'[s][p] = Wanted(p)
    BY <1>5, <1>8, <1>10 DEF Wanted, Blank
  <2> QED BY <1>1, <1>2, <1>3, <1>4, <1>5, <1>7, <1>9, <2>1, <2>2, IdleReaches, ProductStep
<1>11. CASE job[w].kind # "delete"
  <2>1. PICK j : j = [job[w] EXCEPT !.pc = "load"]
    OBVIOUS
  <2>2. To(w, j)
    BY <1>11, <2>1 DEF Erase, AfterErase
  <2>3. j.pc = "load" /\ j.kind = job[w].kind /\ j.product = p
    BY <1>2, <1>5, <2>1 DEF Jobs
  <2>4. Reaches(j, s) /\ Works(j, p)
    BY <1>3, <1>11, <2>3 DEF Reaches, Works
  <2> QED BY <1>1, <1>2, <1>3, <1>4, <1>5, <1>7, <1>9, <2>2, <2>3, <2>4, ProductStep
<1> QED BY <1>10, <1>11

\* A job for a product that is gone is done when the index is clean.
LEMMA LoadCurrent ==
    ASSUME Alone, Typed, CurrentInv, NEW w \in Workers, Load(w), job[w].kind # "reindex"
    PROVE  CurrentInv'
<1>1. PICK s : served = {s}
  BY OneServed DEF Load
<1>2. PICK p : p = job[w].product
  OBVIOUS
<1>3. job[w].pc = "load"
  BY DEF Load
<1>4. UNCHANGED <<db, queue, docs, served>>
  BY DEF Load, admin, indices
<1>5. /\ job[w] \in Jobs /\ p \in Products /\ s \in DOMAIN docs
      /\ Erasing(p) \/ Clean(p, s) \/ Erases(job[w], p, db[p].channels)
      /\ job[w].kind = "delete" => Created(p) /\ ~Live(p)
  BY <1>1, <1>2, <1>3, ProductJobs
<1>6. Clean(p, s)' = Clean(p, s)
  BY <1>4, <1>5, SameShop
<1>7. Erasing(p) \/ Clean(p, s)
  BY <1>3, <1>5 DEF Erases
<1>8. CASE Live(p)
  <2>1. PICK row : row = db[p]
    OBVIOUS
  <2>2. PICK j : j = [job[w] EXCEPT !.pc = "write", !.read = row]
    OBVIOUS
  <2>3. To(w, j)
    BY <1>2, <1>8, <2>1, <2>2 DEF Load
  <2>4. j.pc = "write" /\ j.kind = job[w].kind /\ j.product = p /\ j.read = db[p]
    BY <1>2, <1>5, <2>1, <2>2 DEF Jobs
  <2>5. Reaches(j, s) /\ Works(j, p)
    BY <1>5, <1>8, <2>4 DEF Reaches, Works
  <2> QED BY <1>1, <1>2, <1>4, <1>5, <1>6, <1>7, <2>3, <2>4, <2>5, ProductStep
<1>9. CASE ~Live(p)
  <2>1. To(w, Idle)
    BY <1>2, <1>9 DEF Load, AfterProduct
  <2>2. Queued(p) \/ docs[s][p] = Wanted(p)
    BY <1>5, <1>7, <1>9, ErasingWaits, NothingLeft
  <2>3. Queued(p) \/ docs'[s][p] = Wanted(p)
    BY <1>4, <2>2
  <2> QED BY <1>1, <1>2, <1>4, <1>5, <1>6, <1>7, <2>1, <2>3, IdleReaches, ProductStep
<1> QED BY <1>8, <1>9

\* What is written over clean documents is clean, and what is wanted when the row
\* that was read is the database's.
LEMMA WrittenDocuments ==
    ASSUME Typed, NEW p \in Products, NEW i \in DOMAIN docs, NEW row,
           UNCHANGED db,
           docs'[i][p] = [c \in Channels |->
                             IF c \in row.channels THEN row.version ELSE docs[i][p][c]],
           Erasing(p) \/ Clean(p, i),
           Erasing(p) \/ (Live(p) /\ row.channels \subseteq db[p].channels),
           Queued(p) \/ row = db[p], row.live
    PROVE  /\ Erasing(p) \/ Clean(p, i)'
           /\ Queued(p) \/ docs'[i][p] = Wanted(p)
<1>1. Erasing(p) \/ Clean(p, i)'
  BY DEF Clean, Live
<1>2. ASSUME ~Queued(p) PROVE docs'[i][p] = Wanted(p)
  <2>1. Clean(p, i) /\ row = db[p] /\ Live(p)
    BY <1>2, ErasingWaits DEF Live
  <2>2. \A c \in Channels : c \notin db[p].channels => docs[i][p][c] = 0
    BY <2>1 DEF Clean
  <2>3. \A c \in Channels : docs'[i][p][c] = IF c \in db[p].channels THEN db[p].version ELSE 0
    BY <2>1, <2>2
  <2>4. docs'[i][p] = [c \in Channels |-> docs'[i][p][c]]
    OBVIOUS
  <2> QED BY <2>1, <2>3, <2>4 DEF Wanted
<1> QED BY <1>1, <1>2

\* A job that writes over a clean index makes it as wanted.
LEMMA WriteCurrent ==
    ASSUME Alone, Typed, Faults, CurrentInv, NEW w \in Workers, Write(w), job[w].kind # "reindex"
    PROVE  CurrentInv'
<1>1. PICK s : served = {s}
  BY OneServed DEF Write
<1>2. PICK p, row : p = job[w].product /\ row = job[w].read
  OBVIOUS
<1>3. job[w].pc = "write" /\ job[w].read.live
  BY DEF Write, Typed, JobsTyped, WellFormed
<1>m. ~MakesIndex(job[w])
  BY <1>1 DEF MakesIndex
<1>4. UNCHANGED <<db, queue, served>>
  BY <1>m DEF Write, admin
<1>5. /\ job[w] \in Jobs /\ p \in Products /\ s \in DOMAIN docs /\ WriteTarget(job[w]) = {s}
      /\ Erasing(p) \/ Clean(p, s) \/ Erases(job[w], p, db[p].channels)
      /\ Erasing(p) \/ (Live(p) /\ row.channels \subseteq db[p].channels)
      /\ Queued(p) \/ row = db[p]
  BY <1>1, <1>2, <1>3, ProductJobs
<1>6. PICK content :
         /\ Bulk(job[w], content)
         /\ content = [i \in DOMAIN docs |-> [c \in Channels |->
                          IF c \in row.channels THEN row.version ELSE docs[i][p][c]]]
  BY <1>2, <1>m DEF Write
<1>7. /\ docs'[s][p] = content[s]
      /\ \A q \in Products \ {p} : docs'[s][q] = docs[s][q]
  <2>1. DocsTyped
    BY DEF Typed
  <2>2. Bulk(job[w], content)
    BY <1>6
  <2> QED BY <1>2, <1>5, <2>1, <2>2, BulkWritten
<1>8. docs'[s][p] = [c \in Channels |->
                        IF c \in row.channels THEN row.version ELSE docs[s][p][c]]
  BY <1>5, <1>6, <1>7
<1>9. Erasing(p) \/ Clean(p, s)
  BY <1>3, <1>5 DEF Erases
<1>10. /\ Erasing(p) \/ Clean(p, s)'
       /\ Queued(p) \/ docs'[s][p] = Wanted(p)
  BY <1>2, <1>3, <1>4, <1>5, <1>8, <1>9, WrittenDocuments
<1>11. To(w, Idle)
  <2>1. PICK k : k = [job[w] EXCEPT !.read = NoRow]
    OBVIOUS
  <2>2. k.kind # "reindex"
    BY <1>5, <2>1 DEF Jobs
  <2>3. To(w, AfterProduct(k))
    BY <2>1 DEF Write
  <2> QED BY <2>2, <2>3, AfterProductOfUpdate
<1> QED BY <1>1, <1>2, <1>4, <1>5, <1>7, <1>10, <1>11, IdleReaches, ProductStep

\* A job that is taken no longer waits; a worker has it.
LEMMA TakeCurrent ==
    ASSUME Alone, Typed, CurrentInv, NEW w \in Workers, Take(w)
    PROVE  CurrentInv'
<1>1. PICK next : next = Head(queue)
  OBVIOUS
<1>2. /\ queue \in Seq(Requests) /\ queue # <<>> /\ queue' = Tail(queue)
      /\ UNCHANGED <<db, docs, served>>
      /\ job[w].pc = "idle" /\ job[w].kind = "none"
  BY DEF Take, Typed, QueueTyped, JobsTyped, WellFormed, admin, indices
<1>r. /\ Len(queue) \in Nat \ {0} /\ Len(queue') = Len(queue) - 1 /\ next = queue[1]
      /\ \A n \in 1 .. Len(queue) - 1 : queue'[n] = queue[n + 1]
  BY <1>1, <1>2
<1>3. /\ \A n \in 1 .. Len(queue) : queue[n] = next \/ \E m \in 1 .. Len(queue') : queue'[m] = queue[n]
      /\ \A m \in 1 .. Len(queue') : \E n \in 1 .. Len(queue) : queue'[m] = queue[n]
      /\ next \in Requests /\ \E n \in 1 .. Len(queue) : queue[n] = next
  <2>1. ASSUME NEW n \in 1 .. Len(queue)
        PROVE  queue[n] = next \/ \E m \in 1 .. Len(queue') : queue'[m] = queue[n]
    <3>1. CASE n = 1
      BY <1>r, <3>1
    <3>2. CASE n # 1
      <4>1. n - 1 \in 1 .. Len(queue') /\ queue'[n - 1] = queue[n]
        BY <1>r, <3>2
      <4> QED BY <4>1
    <3> QED BY <3>1, <3>2
  <2>2. ASSUME NEW m \in 1 .. Len(queue')
        PROVE  \E n \in 1 .. Len(queue) : queue'[m] = queue[n]
    <3>1. m + 1 \in 1 .. Len(queue) /\ queue'[m] = queue[m + 1]
      BY <1>r, <2>2
    <3> QED BY <3>1
  <2>3. 1 \in 1 .. Len(queue) /\ next = queue[1]
    BY <1>r
  <2>4. next \in Requests
    BY <1>2, <2>3
  <2>5. \E n \in 1 .. Len(queue) : queue[n] = next
    BY <2>3
  <2> QED BY <2>1, <2>2, <2>4, <2>5
<1>4. \A p \in Products :
          /\ Live(p)' = Live(p) /\ Created(p)' = Created(p) /\ Wanted(p)' = Wanted(p)
          /\ \A i : Clean(p, i)' = Clean(p, i)
  BY <1>2 DEF Live, Created, Wanted, Clean
<1>5. \A p \in Products :
          /\ Queued(p) => Queued(p)' \/ next.product = p
          /\ Erasing(p) => Erasing(p)' \/ (next.product = p /\ next.ctx \in db[p].channels)
  <2>1. /\ db' = db
        /\ \A n \in 1 .. Len(queue) :
              queue[n] = next \/ \E m \in 1 .. Len(queue') : queue'[m] = queue[n]
    BY <1>2, <1>3
  <2>2. \A p \in Products : Queued(p) => Queued(p)' \/ next.product = p
    BY <2>1 DEF Queued
  <2>3. ASSUME NEW p \in Products, Erasing(p)
        PROVE  Erasing(p)' \/ (next.product = p /\ next.ctx \in db[p].channels)
    BY <2>1, <2>3 DEF Erasing
  <2> QED BY <2>2, <2>3
<1>6. PICK j : /\ To(w, j)
               /\ j = [Idle EXCEPT !.pc = IF next.kind = "reindex" THEN "create" ELSE "find",
                                   !.kind = next.kind, !.product = next.product,
                                   !.ctx = next.ctx]
  BY <1>1 DEF Take
<1>7. /\ j.pc = IF next.kind = "reindex" THEN "create" ELSE "find"
      /\ j.kind = next.kind /\ j.product = next.product /\ j.ctx = next.ctx /\ j.skip = 0
  BY <1>6 DEF Idle
<1>8. \A v \in Workers : v = w /\ job'[v] = j
  BY <1>6 DEF Alone, Typed, JobsTyped, To
<1>9. \A v \in Workers : \A p : ~Works(job[v], p) /\ ~Erases(job[v], p, db[p].channels)
  BY <1>2, <1>8 DEF Works, Erases
<1>10. /\ next.kind \in {"update", "delete", "reindex"}
       /\ next.kind = "reindex" => next.product = 0
       /\ next.kind # "reindex" => next.product \in Products
  BY <1>3 DEF Requests, ReindexJob
<1>11. ShopInv'
  <2>1. \A n \in 1 .. Len(queue) : queue[n].kind = "delete" =>
            queue[n].product \in Products /\ Created(queue[n].product) /\ ~Live(queue[n].product)
    BY DEF Typed, QueueTyped, Requests, ReindexJob, CurrentInv, ShopInv
  <2>2. next.kind = "delete" => Created(next.product)' /\ ~Live(next.product)'
    BY <1>3, <1>4, <2>1
  <2>3. \A n \in 1 .. Len(queue') : queue'[n].kind = "delete" =>
            queue'[n].product \in Products /\ Created(queue'[n].product) /\ ~Live(queue'[n].product)
    BY <1>3, <2>1, SMTT(60)
  <2>4. (\A n \in 1 .. Len(queue) : queue[n].kind = "delete" =>
            Created(queue[n].product) /\ ~Live(queue[n].product))'
    BY <1>2, <2>3 DEF Created, Live
  <2>5. (\A v \in Workers : job[v].kind = "delete" =>
            Created(job[v].product) /\ ~Live(job[v].product))'
    BY <1>7, <1>8, <2>2 DEF Created, Live
  <2>6. (\A p \in Products : Live(p) => Created(p))' /\
        (\A p, q \in Products : Created(p) /\ q < p => Created(q))'
    BY <1>4 DEF CurrentInv, ShopInv
  <2> QED BY <2>4, <2>5, <2>6 DEF ShopInv
<1>12. AliasInv'
  BY <1>2, <1>7, <1>8 DEF CurrentInv, AliasInv
<1>13. ReadInv'
  BY <1>7, <1>8 DEF ReadInv
<1>14. ServeInv'
  <2> SUFFICES ASSUME NEW p \in Products, NEW i \in served
      PROVE  /\ Erasing(p)' \/ Clean(p, i)' \/ Erases(j, p, db[p].channels)
             /\ Queued(p)' \/ docs[i][p] = Wanted(p) \/ Works(j, p)
    BY <1>2, <1>4, <1>8 DEF ServeInv
  <2>1. /\ Erasing(p) \/ Clean(p, i)
        /\ Queued(p) \/ docs[i][p] = Wanted(p)
    BY <1>9 DEF CurrentInv, ServeInv
  <2>2. CASE next.product = p
    <3>1. next.kind # "reindex"
      BY <1>10, <2>2, ShopAssumption DEF Products
    <3>2. Works(j, p) /\ (next.ctx \in db[p].channels => Erases(j, p, db[p].channels))
      BY <1>7, <2>2, <3>1 DEF Works, Erases
    <3> QED BY <1>4, <1>5, <2>1, <3>2
  <2>3. CASE next.product # p
    BY <1>4, <1>5, <2>1, <2>3
  <2> QED BY <2>2, <2>3
<1>15. BuildInv'
  BY <1>7, <1>8, <1>10 DEF BuildInv, Building, Owner
<1> QED BY <1>11, <1>12, <1>13, <1>14, <1>15 DEF CurrentInv

-----------------------------------------------------------------------------
\* What every change of a product has in common: the job that it queues will erase
\* the documents, unless the product stays where it is. Only one that is not there
\* yet is created, in order, and none is deleted while a reindex runs.
ProperChange(p, row, kind, ctx) ==
    /\ Change(p, row, kind, ctx)
    /\ row.version = db[p].version
    /\ kind = "delete" => Created(p) /\ ~row.live
    /\ ctx \in row.channels \/ (row.live = Live(p) /\ row.channels = db[p].channels)
    /\ \/ Live(p)
       \/ ~Created(p) /\ row.live /\ \A q \in Products : q < p => Created(q)
    /\ row.live \/ Reindexing = {}

\* Each operation of the admins but a request is such a change.
LEMMA AdminChanges ==
    ASSUME Alone, Typed, CurrentInv, Admin, ~RequestReindex
    PROVE  \E p \in Products, row \in Rows, kind \in {"update", "delete"}, ctx \in Channels :
              ProperChange(p, row, kind, ctx)
<1> SUFFICES ASSUME NEW p \in Products, NEW ctx \in Channels,
               \/ CreateProduct(p, ctx) \/ UpdateProduct(p, ctx) \/ DeleteProduct(p, ctx)
               \/ \E c \in Channels :
                    AssignProductToChannel(p, c, ctx) \/ RemoveProductFromChannel(p, c, ctx)
             PROVE  \E row \in Rows, kind \in {"update", "delete"} : ProperChange(p, row, kind, ctx)
  BY DEF Admin
<1>1. db[p] \in Rows /\ (Live(p) => Created(p))
  BY DEF Typed, DbTyped, CurrentInv, ShopInv
<1>2. CASE CreateProduct(p, ctx)
  <2>1. PICK row : row = [db[p] EXCEPT !.live = TRUE, !.channels = {Default, ctx}]
    OBVIOUS
  <2>2. row \in Rows /\ row.version = db[p].version /\ row.live /\ ctx \in row.channels
    BY <1>1, <2>1, ShopAssumption DEF Rows
  <2>3. \A q \in Products : q < p => q \in 1 .. p - 1
    BY ShopAssumption DEF Products
  <2> QED BY <1>2, <2>1, <2>2, <2>3 DEF CreateProduct, ProperChange
<1>3. CASE UpdateProduct(p, ctx)
  BY <1>1, <1>3 DEF UpdateProduct, ProperChange, Live
<1>4. CASE DeleteProduct(p, ctx)
  <2>1. PICK row : row = [db[p] EXCEPT !.live = FALSE]
    OBVIOUS
  <2>2. row \in Rows /\ row.version = db[p].version /\ ~row.live /\ row.channels = db[p].channels
    BY <1>1, <2>1 DEF Rows
  <2> QED BY <1>1, <1>4, <2>1, <2>2 DEF DeleteProduct, ProperChange, Alone
<1>5. ASSUME NEW c \in Channels, AssignProductToChannel(p, c, ctx)
      PROVE  \E row \in Rows, kind \in {"update", "delete"} : ProperChange(p, row, kind, ctx)
  <2>1. PICK row : row = [db[p] EXCEPT !.channels = @ \cup {c}]
    OBVIOUS
  <2>2. /\ row \in Rows /\ row.version = db[p].version /\ row.live = db[p].live
        /\ row.channels = db[p].channels \cup {c}
    BY <1>1, <2>1 DEF Rows
  <2> QED BY <1>1, <1>5, <2>1, <2>2 DEF AssignProductToChannel, ProperChange, Live
<1>6. ASSUME NEW c \in Channels, RemoveProductFromChannel(p, c, ctx)
      PROVE  \E row \in Rows, kind \in {"update", "delete"} : ProperChange(p, row, kind, ctx)
  <2>1. PICK row : row = [db[p] EXCEPT !.channels = @ \ {c}]
    OBVIOUS
  <2>2. /\ row \in Rows /\ row.version = db[p].version /\ row.live = db[p].live
        /\ row.channels = db[p].channels \ {c}
    BY <1>1, <2>1 DEF Rows
  <2> QED BY <1>1, <1>6, <2>1, <2>2 DEF RemoveProductFromChannel, ProperChange, Live, Alone
<1> QED BY <1>2, <1>3, <1>4, <1>5, <1>6

\* Products that a change leaves alone keep their row numbers, as far as a reindex
\* depends on them.
LEMMA ChangeRows ==
    ASSUME Typed, CurrentInv, NEW p \in Products, NEW live \in BOOLEAN, live,
           \A q \in Products : Live(q)' <=> IF q = p THEN live ELSE Live(q),
           \/ Live(p)
           \/ ~Created(p) /\ \A q \in Products : q < p => Created(q),
           NEW q \in Products, Live(q)
    PROVE  RowNumber(q)' = RowNumber(q)
<1>1. CASE Live(p)
  <2>1. \A r \in 1 .. q : r \in Products
    BY ShopAssumption DEF Products
  <2>2. \A r \in Products : Live(r)' <=> Live(r)
    BY <1>1, ZenonT(30)
  <2>3. \A r \in 1 .. q : Live(r)' <=> Live(r)
    BY <2>1, <2>2
  <2> QED BY <2>3 DEF RowNumber
<1>2. CASE ~Created(p)
  <2>1. Created(q) /\ \A r \in Products : r < q => Created(r)
    BY DEF CurrentInv, ShopInv
  <2>2. ~(p < q) /\ p # q
    BY <1>2, <2>1
  <2>3. \A r \in 1 .. q : r \in Products /\ r # p
    BY <2>2, ShopAssumption DEF Products
  <2>4. \A r \in 1 .. q : Live(r)' <=> Live(r)
    BY <2>3
  <2> QED BY <2>4 DEF RowNumber
<1> QED BY <1>1, <1>2

\* A change of a product: the job that it queues will bring the index up to date.
LEMMA ChangeCurrent ==
    ASSUME Alone, Typed, IInv, CurrentInv, NEW p \in Products, NEW row \in Rows,
           NEW kind \in {"update", "delete"}, NEW ctx \in Channels,
           ProperChange(p, row, kind, ctx)
    PROVE  CurrentInv'
<1>1. /\ queue \in Seq(Requests) /\ queue' = Append(queue, ProductJob(kind, p, ctx))
      /\ UNCHANGED <<docs, served, job>>
      /\ db[p].version \in Nat /\ row.live \in BOOLEAN
  BY BoundAssumption DEF ProperChange, Change, indices, Typed, QueueTyped, DbTyped, Rows, Versions
<1>2. \A q \in Products :
          /\ Live(q)' = IF q = p THEN row.live ELSE Live(q)
          /\ db'[q].channels = IF q = p THEN row.channels ELSE db[q].channels
          /\ Created(q) \/ q = p => Created(q)'
          /\ Created(q)' => Created(q) \/ q = p
          /\ q # p => db'[q] = db[q]
  <2>1. PICK new : new = [row EXCEPT !.version = @ + 1]
    OBVIOUS
  <2>2. /\ new.live = row.live /\ new.channels = row.channels
        /\ new.version = db[p].version + 1
    BY <2>1 DEF ProperChange, Rows
  <2>3. db' = [db EXCEPT ![p] = new] /\ db \in [Products -> Rows]
    BY <2>1 DEF ProperChange, Change, Typed, DbTyped
  <2>4. \A q \in Products : db'[q] = IF q = p THEN new ELSE db[q]
    BY <2>3
  <2>5. new.version > 0
    BY <1>1, <2>2
  <2> QED BY <2>2, <2>4, <2>5 DEF Live, Created
<1>3. /\ \A n \in 1 .. Len(queue) : n \in 1 .. Len(queue') /\ queue'[n] = queue[n]
      /\ \A n \in 1 .. Len(queue') : \/ n \in 1 .. Len(queue) /\ queue'[n] = queue[n]
                                     \/ queue'[n] = ProductJob(kind, p, ctx)
      /\ \E n \in 1 .. Len(queue') : queue'[n] = ProductJob(kind, p, ctx)
  <2>1. /\ Len(queue') = Len(queue) + 1 /\ Len(queue) \in Nat
        /\ queue'[Len(queue) + 1] = ProductJob(kind, p, ctx)
        /\ \A n \in 1 .. Len(queue) : queue'[n] = queue[n]
    BY <1>1
  <2> QED BY <2>1
<1>4. Queued(p)'
  BY <1>3 DEF Queued, ProductJob
<1>5. \A q \in Products : Queued(q) => Queued(q)'
  BY <1>3 DEF Queued
<1>6. \A q \in Products : q # p /\ Erasing(q) => Erasing(q)'
  BY <1>2, <1>3 DEF Erasing
<1>7. \/ Erasing(p)'
      \/ /\ row.live = Live(p) /\ row.channels = db[p].channels
         /\ Erasing(p) => Erasing(p)'
  <2>1. ctx \in row.channels \/ (row.live = Live(p) /\ row.channels = db[p].channels)
    BY DEF ProperChange
  <2>2. ctx \in row.channels => Erasing(p)'
    BY <1>2, <1>3 DEF Erasing, ProductJob
  <2>3. row.channels = db[p].channels /\ Erasing(p) => Erasing(p)'
    BY <1>2, <1>3 DEF Erasing
  <2> QED BY <2>1, <2>2, <2>3
<1>8. /\ \A q \in Products \ {p} : Wanted(q)' = Wanted(q)
      /\ \A q \in Products : q # p \/ (row.live = Live(p) /\ row.channels = db[p].channels)
                              => \A i : Clean(q, i)' = Clean(q, i)
  BY <1>1, <1>2 DEF Wanted, Clean, Live
<1>9. ShopInv'
  <2>1. \A q \in Products : Live(q)' => Created(q)'
    BY <1>2 DEF CurrentInv, ShopInv
  <2>2. ASSUME NEW q \in Products, NEW r \in Products, Created(q)', r < q PROVE Created(r)'
    <3>1. Created(p) \/ \A u \in Products : u < p => Created(u)
      BY DEF ProperChange, CurrentInv, ShopInv
    <3>2. Created(r) \/ r = p
      BY <1>2, <2>2, <3>1 DEF CurrentInv, ShopInv
    <3> QED BY <1>2, <3>2
  <2>3. Live(p) \/ ~Created(p)
    BY DEF ProperChange
  <2>4. \A q \in Products : Created(q) /\ ~Live(q) => Created(q)' /\ ~Live(q)'
    BY <1>2, <2>3
  <2>5. \A n \in 1 .. Len(queue) : queue[n].kind = "delete" =>
            queue[n].product \in Products /\ Created(queue[n].product) /\ ~Live(queue[n].product)
    BY <1>1 DEF Requests, ReindexJob, CurrentInv, ShopInv
  <2>6. kind = "delete" => Created(p)' /\ ~Live(p)'
    BY <1>2 DEF ProperChange
  <2>7. \A n \in 1 .. Len(queue') : queue'[n].kind = "delete" =>
            \E q \in Products : queue'[n].product = q /\ Created(q)' /\ ~Live(q)'
    BY <1>3, <2>4, <2>5, <2>6 DEF ProductJob
  <2>8. (\A n \in 1 .. Len(queue) : queue[n].kind = "delete" =>
            Created(queue[n].product) /\ ~Live(queue[n].product))'
    BY <2>7 DEF Created, Live
  <2>9. \A w \in Workers : job[w].kind = "delete" =>
            job[w].product \in Products /\ Created(job[w].product) /\ ~Live(job[w].product)
    <3> SUFFICES ASSUME NEW w \in Workers, job[w].kind = "delete"
                 PROVE  job[w].product \in Products
      BY DEF CurrentInv, ShopInv
    <3>1. WellFormed(job[w]) /\ job[w] \in Jobs
      BY DEF Typed, JobsTyped, WellFormed
    <3>2. job[w].pc \in {"find", "erase", "load", "write"}
      BY <3>1 DEF WellFormed, Jobs, IInv, Shape
    <3> QED BY <3>1, <3>2 DEF WellFormed
  <2>10. (\A w \in Workers : job[w].kind = "delete" =>
            Created(job[w].product) /\ ~Live(job[w].product))'
    BY <1>1, <2>4, <2>9 DEF Created, Live
  <2> QED BY <2>1, <2>2, <2>8, <2>10 DEF ShopInv
<1>10. AliasInv'
  BY <1>1 DEF CurrentInv, AliasInv
<1>11. ReadInv'
  <2> SUFFICES ASSUME NEW w \in Workers, NEW q \in Products, job[w].pc = "write", job[w].product = q
               PROVE  /\ Erasing(q)' \/ (Live(q)' /\ job[w].read.channels \subseteq db'[q].channels)
                      /\ Queued(q)' \/ job[w].read = db'[q]
    BY <1>1 DEF ReadInv
  <2>1. /\ Erasing(q) \/ (Live(q) /\ job[w].read.channels \subseteq db[q].channels)
        /\ Queued(q) \/ job[w].read = db[q]
    BY DEF CurrentInv, ReadInv
  <2> QED BY <1>2, <1>4, <1>5, <1>6, <1>7, <2>1
<1>12. ServeInv'
  <2> SUFFICES ASSUME NEW q \in Products, NEW i \in served
      PROVE  /\ Erasing(q)' \/ Clean(q, i)' \/ \E w \in Workers : Erases(job[w], q, db'[q].channels)
             /\ Queued(q)' \/ docs[i][q] = Wanted(q)' \/ \E w \in Workers : Works(job[w], q)
    BY <1>1 DEF ServeInv
  <2>1. /\ Erasing(q) \/ Clean(q, i) \/ \E w \in Workers : Erases(job[w], q, db[q].channels)
        /\ Queued(q) \/ docs[i][q] = Wanted(q) \/ \E w \in Workers : Works(job[w], q)
    BY DEF CurrentInv, ServeInv
  <2>2. CASE q # p
    BY <1>2, <1>5, <1>6, <1>8, <2>1, <2>2
  <2>3. CASE q = p
    BY <1>2, <1>4, <1>7, <1>8, <2>1, <2>3
  <2> QED BY <2>2, <2>3
<1>13. BuildInv'
  <2> SUFFICES ASSUME NEW w \in Workers, NEW q \in Products, NEW i \in DOMAIN docs,
                      Building(w), job[w].index = i
      PROVE  /\ Erasing(q)' \/ Clean(q, i)'
             /\ \/ Queued(q)' \/ docs[i][q] = Wanted(q)'
                \/ docs[i][q] = Blank /\ Live(q)' /\ ToDo(job[w], q, RowNumber(q)')
    BY <1>1 DEF BuildInv, Building, Owner
  <2>1. /\ Erasing(q) \/ Clean(q, i)
        /\ \/ Queued(q) \/ docs[i][q] = Wanted(q)
           \/ docs[i][q] = Blank /\ Live(q) /\ ToDo(job[w], q, RowNumber(q))
    BY DEF CurrentInv, BuildInv
  <2>2. CASE q = p
    BY <1>4, <1>7, <1>8, <2>1, <2>2
  <2>3. CASE q # p
    <3>1. w \in Reindexing
      BY DEF Building, Owner, Reindexing, Busy, Typed, JobsTyped, WellFormed
    <3>2. row.live
      BY <3>1 DEF ProperChange
    <3>3. Live(q) => RowNumber(q)' = RowNumber(q)
      <4>1. Live(p) \/ (~Created(p) /\ \A r \in Products : r < p => Created(r))
        BY DEF ProperChange
      <4>2. \A r \in Products : Live(r)' <=> IF r = p THEN row.live ELSE Live(r)
        BY <1>2
      <4> QED BY <1>1, <3>2, <4>1, <4>2, ChangeRows
    <3> QED BY <1>2, <1>5, <1>6, <1>8, <2>1, <2>3, <3>3
  <2> QED BY <2>2, <2>3
<1> QED BY <1>9, <1>10, <1>11, <1>12, <1>13 DEF CurrentInv

\* A request of a reindex is not for a product.
LEMMA RequestCurrent ==
    ASSUME Typed, CurrentInv, RequestReindex PROVE CurrentInv'
<1>1. /\ queue \in Seq(Requests) /\ queue' = Append(queue, ReindexJob)
      /\ UNCHANGED <<db, docs, served, job>>
  BY DEF RequestReindex, indices, Typed, QueueTyped
<1>2. /\ \A n \in 1 .. Len(queue) : n \in 1 .. Len(queue') /\ queue'[n] = queue[n]
      /\ \A n \in 1 .. Len(queue') : \/ n \in 1 .. Len(queue) /\ queue'[n] = queue[n]
                                     \/ queue'[n] = ReindexJob
  <2>1. /\ Len(queue') = Len(queue) + 1 /\ Len(queue) \in Nat
        /\ queue'[Len(queue) + 1] = ReindexJob
        /\ \A n \in 1 .. Len(queue) : queue'[n] = queue[n]
    BY <1>1
  <2> QED BY <2>1
<1>3. \A q \in Products : /\ Queued(q)' = Queued(q) /\ Erasing(q)' = Erasing(q)
                          /\ Wanted(q)' = Wanted(q) /\ Live(q)' = Live(q)
                          /\ RowNumber(q)' = RowNumber(q)
                          /\ \A i : Clean(q, i)' = Clean(q, i)
  <2>1. \A q \in Products : q # 0
    BY ShopAssumption DEF Products
  <2>2. \A q \in Products : Queued(q)' = Queued(q) /\ Erasing(q)' = Erasing(q)
    BY <1>1, <1>2, <2>1 DEF Queued, Erasing, ReindexJob
  <2> QED BY <1>1, <2>2 DEF Wanted, Live, RowNumber, Clean
<1>4. ShopInv'
  BY <1>1, <1>2 DEF CurrentInv, ShopInv, Live, Created, ReindexJob
<1>5. AliasInv'
  BY <1>1 DEF CurrentInv, AliasInv
<1>6. ReadInv'
  BY <1>1, <1>3 DEF CurrentInv, ReadInv
<1>7. ServeInv'
  BY <1>1, <1>3 DEF CurrentInv, ServeInv
<1>8. BuildInv'
  BY <1>1, <1>3 DEF CurrentInv, BuildInv, Building, Owner
<1> QED BY <1>4, <1>5, <1>6, <1>7, <1>8 DEF CurrentInv

-----------------------------------------------------------------------------
\* When a reindex is done with a product it still has the ones that remain.
LEMMA RemainsToDo ==
    ASSUME NEW j \in Jobs, j.kind = "reindex", NEW q, NEW r, Remains(j, q, r)
    PROVE  ToDo(AfterProduct(j), q, r)
<1>0. j.todo \in Seq(Products)
  BY DEF Jobs
<1>1. CASE j.todo # <<>>
  <2>1. PICK k, p, todo : /\ p = Head(j.todo) /\ todo = Tail(j.todo)
                          /\ k = [j EXCEPT !.pc = "load", !.product = p, !.todo = todo]
    OBVIOUS
  <2>2. /\ k.pc = "load" /\ k.product = p /\ k.todo = todo
        /\ k.full = j.full /\ k.skip = j.skip
    BY <2>1 DEF Jobs
  <2>3. AfterProduct(j) = k
    BY <1>1, <2>1 DEF AfterProduct
  <2>4. ASSUME NEW n \in 1 .. Len(j.todo), j.todo[n] = q
        PROVE  p = q \/ \E m \in 1 .. Len(todo) : todo[m] = q
    <3>1. /\ Len(j.todo) \in Nat /\ Len(todo) = Len(j.todo) - 1 /\ p = j.todo[1]
          /\ \A m \in 1 .. Len(todo) : todo[m] = j.todo[m + 1]
      BY <1>0, <1>1, <2>1
    <3>2. n # 1 => n - 1 \in 1 .. Len(todo) /\ todo[n - 1] = j.todo[n]
      BY <3>1
    <3> QED BY <2>4, <3>1, <3>2
  <2> QED BY <2>2, <2>3, <2>4 DEF Remains, ToDo
<1>2. CASE j.todo = <<>>
  <2>1. Len(j.todo) = 0
    BY <1>2
  <2>2. j.full /\ r > j.skip
    BY <2>1 DEF Remains
  <2>3. AfterProduct(j).pc = "page" /\ AfterProduct(j).skip = j.skip
    BY <1>2, <2>2 DEF AfterProduct, Jobs
  <2> QED BY <2>2, <2>3 DEF ToDo
<1> QED BY <1>1, <1>2

\* A step of a reindex that leaves the served index alone.
LEMMA ReindexStep ==
    ASSUME Alone, Typed, CurrentInv, UNCHANGED <<db, queue, served>>,
           NEW s, served = {s}, \A q \in Products : docs'[s][q] = docs[s][q],
           NEW w \in Workers, job[w].kind = "reindex",
           NEW j, To(w, j), Reaches(j, s), Builds(j)
    PROVE  CurrentInv'
<1>1. \A v \in Workers, q \in Products : ~Works(job[v], q) /\ ~Erases(job[v], q, db[q].channels)
  BY DEF Alone, Works, Erases
<1>2. \A q \in Products : /\ Erasing(q) \/ Clean(q, s)
                          /\ Queued(q) \/ docs[s][q] = Wanted(q)
  BY <1>1 DEF CurrentInv, ServeInv
<1>3. \A q \in Products : Clean(q, s)' = Clean(q, s)
  BY SameShop
<1>4. Serves(j, s)
  BY <1>2, <1>3 DEF Serves
<1> QED BY <1>4, StepCurrent

\* A worker that builds an index goes on to the job j: each product of the index is
\* as it was and remains to be done if it was to be done, or it is as wanted.
LEMMA BuildsOn ==
    ASSUME Typed, IInv, CurrentInv, UNCHANGED <<db, queue>>, NEW w \in Workers, Building(w),
           NEW j, j.index = job[w].index,
           \A q \in Products :
              \/ /\ docs'[j.index][q] = docs[j.index][q]
                 /\ Live(q) /\ ToDo(job[w], q, RowNumber(q)) => ToDo(j, q, RowNumber(q))
              \/ /\ Erasing(q) \/ Clean(q, j.index)'
                 /\ Queued(q) \/ docs'[j.index][q] = Wanted(q)
    PROVE  Builds(j)
<1>1. PICK i : i = j.index
  OBVIOUS
<1>2. i \in DOMAIN docs
  BY <1>1 DEF IInv, SwitchInv, Typed, DocsTyped
<1>3. \A q \in Products :
          /\ Erasing(q) \/ Clean(q, i)
          /\ \/ Queued(q) \/ docs[i][q] = Wanted(q)
             \/ docs[i][q] = Blank /\ Live(q) /\ ToDo(job[w], q, RowNumber(q))
  BY <1>1, <1>2 DEF CurrentInv, BuildInv
<1>4. \A q \in Products : docs'[i][q] = docs[i][q] => Clean(q, i)' = Clean(q, i)
  BY SameShop
<1>5. \A q \in Products :
          /\ Erasing(q) \/ Clean(q, i)'
          /\ \/ Queued(q) \/ docs'[i][q] = Wanted(q)
             \/ docs'[i][q] = Blank /\ Live(q) /\ ToDo(j, q, RowNumber(q))
  BY <1>1, <1>3, <1>4
<1>6. \A q \in Products : Clean(q, j.index)' <=> Clean(q, i)'
  BY <1>1
<1> QED BY <1>1, <1>5, <1>6 DEF Builds

\* A reindex promises nothing but where it starts, writes and switches.
LEMMA ReindexReaches ==
    ASSUME NEW j, NEW s, j.kind = "reindex", j.pc \notin {"create", "swap", "write"}
    PROVE  Reaches(j, s)
BY DEF Reaches

\* Where a worker is that builds an index.
LEMMA Builders ==
    ASSUME Typed, IInv, NEW w \in Workers, job[w].kind = "reindex",
           job[w].pc \in {"load", "write", "page", "resolve", "swap"}
    PROVE  /\ Building(w) /\ job[w] \in Jobs
           /\ job[w].index \in DOMAIN docs /\ job[w].index \notin served
BY DEF Building, Owner, IInv, SwitchInv, Typed, JobsTyped, DocsTyped

\* A reindex passes a product that is gone.
LEMMA ReindexLoadCurrent ==
    ASSUME Alone, Typed, IInv, CurrentInv, NEW w \in Workers, Load(w), job[w].kind = "reindex"
    PROVE  CurrentInv'
<1>1. PICK s : served = {s}
  BY OneServed DEF Load
<1>2. PICK p, row : p = job[w].product /\ row = db[p]
  OBVIOUS
<1>3. job[w].pc = "load" /\ UNCHANGED <<db, queue, docs, served>>
  BY DEF Load, admin, indices
<1>4. Building(w) /\ job[w] \in Jobs
  BY <1>3, Builders
<1>5. CASE Live(p)
  <2>1. PICK j : j = [job[w] EXCEPT !.pc = "write", !.read = row]
    OBVIOUS
  <2>2. To(w, j)
    BY <1>2, <1>5, <2>1 DEF Load
  <2>3. /\ j.pc = "write" /\ j.kind = "reindex" /\ j.index = job[w].index /\ j.product = p
        /\ j.read = row /\ j.todo = job[w].todo /\ j.full = job[w].full /\ j.skip = job[w].skip
    BY <1>2, <1>4, <2>1 DEF Jobs
  <2>4. Reaches(j, s)
    BY <1>2, <1>5, <2>3 DEF Reaches
  <2>5. \A q \in Products : ToDo(job[w], q, RowNumber(q)) => ToDo(j, q, RowNumber(q))
    BY <1>2, <1>3, <2>3 DEF ToDo, Remains
  <2>6. Builds(j)
    BY <1>3, <1>4, <2>3, <2>5, BuildsOn
  <2> QED BY <1>1, <1>3, <2>2, <2>4, <2>6, ReindexStep
<1>6. CASE ~Live(p)
  <2>1. PICK j : j = AfterProduct(job[w])
    OBVIOUS
  <2>2. To(w, j)
    BY <1>2, <1>6, <2>1 DEF Load
  <2>3. j.kind = "reindex" /\ j.pc \in {"load", "page", "resolve"} /\ j.index = job[w].index
    <3>1. Fields \subseteq DOMAIN job[w]
      BY DEF IInv, Shape
    <3> QED BY <2>1, <3>1, AfterProductOfReindex
  <2>4. Reaches(j, s)
    BY <2>3, ReindexReaches
  <2>5. ASSUME NEW q \in Products, Live(q), ToDo(job[w], q, RowNumber(q))
        PROVE  ToDo(j, q, RowNumber(q))
    <3>1. PICK r : r = RowNumber(q)
      OBVIOUS
    <3>2. q # p /\ Remains(job[w], q, r)
      BY <1>2, <1>3, <1>6, <2>5, <3>1 DEF ToDo
    <3> QED BY <1>4, <2>1, <3>1, <3>2, RemainsToDo
  <2>6. Builds(j)
    BY <1>3, <1>4, <2>3, <2>5, BuildsOn
  <2> QED BY <1>1, <1>3, <2>2, <2>4, <2>6, ReindexStep
<1> QED BY <1>5, <1>6

\* What a reindex writes of a product is wanted, unless a job for the product waits.
LEMMA ReindexWriteCurrent ==
    ASSUME Alone, Typed, IInv, Faults, CurrentInv, NEW w \in Workers, Write(w),
           job[w].kind = "reindex"
    PROVE  CurrentInv'
<1>1. PICK s : served = {s}
  BY OneServed DEF Write
<1>2. PICK p, row, i : p = job[w].product /\ row = job[w].read /\ i = job[w].index
  OBVIOUS
<1>m. ~MakesIndex(job[w])
  BY DEF MakesIndex
<1>3. job[w].pc = "write" /\ row.live /\ p \in Products /\ UNCHANGED <<db, queue, served>>
  BY <1>2, <1>m DEF Write, Typed, JobsTyped, WellFormed, admin
<1>4. Building(w) /\ job[w] \in Jobs /\ i \in DOMAIN docs /\ i # s /\ s \in DOMAIN docs
  BY <1>1, <1>2, <1>3, Builders DEF Typed, DocsTyped
<1>5. WriteTarget(job[w]) = {i}
  BY <1>2, <1>4 DEF WriteTarget
<1>6. PICK content :
         /\ Bulk(job[w], content)
         /\ content = [h \in DOMAIN docs |-> [c \in Channels |->
                          IF c \in row.channels THEN row.version ELSE docs[h][p][c]]]
  BY <1>2, <1>m DEF Write
<1>7. /\ docs'[i][p] = content[i]
      /\ \A h \in DOMAIN docs, q \in Products : h # i \/ q # p => docs'[h][q] = docs[h][q]
  <2>1. DocsTyped
    BY DEF Typed
  <2>2. Bulk(job[w], content)
    BY <1>6
  <2> QED BY <1>2, <1>3, <1>4, <1>5, <2>1, <2>2, BulkWritten
<1>8. docs'[i][p] = [c \in Channels |->
                        IF c \in row.channels THEN row.version ELSE docs[i][p][c]]
  BY <1>4, <1>6, <1>7
<1>9. /\ Erasing(p) \/ Clean(p, i)
      /\ Erasing(p) \/ (Live(p) /\ row.channels \subseteq db[p].channels)
      /\ Queued(p) \/ row = db[p]
  BY <1>2, <1>3, <1>4 DEF CurrentInv, BuildInv, ReadInv
<1>10. /\ Erasing(p) \/ Clean(p, i)'
       /\ Queued(p) \/ docs'[i][p] = Wanted(p)
  BY <1>3, <1>4, <1>8, <1>9, WrittenDocuments
<1>11. PICK k, j : k = [job[w] EXCEPT !.read = NoRow] /\ j = AfterProduct(k)
  OBVIOUS
<1>12. /\ k \in Jobs /\ k.kind = "reindex" /\ k.index = i
       /\ k.todo = job[w].todo /\ k.full = job[w].full /\ k.skip = job[w].skip
  <2>1. 0 \in Versions
    BY BoundAssumption DEF Versions
  <2>2. NoRow \in Rows
    BY <2>1 DEF NoRow, Rows
  <2> QED BY <1>2, <1>4, <1>11, <2>2 DEF Jobs
<1>13. To(w, j)
  BY <1>11 DEF Write
<1>14. j.kind = "reindex" /\ j.pc \in {"load", "page", "resolve"} /\ j.index = i
  <2>1. Fields \subseteq DOMAIN k
    BY <1>12 DEF Jobs, Fields
  <2> QED BY <1>11, <1>12, <2>1, AfterProductOfReindex
<1>15. Reaches(j, s)
  BY <1>14, ReindexReaches
<1>16. ASSUME NEW q \in Products, q # p, ToDo(job[w], q, RowNumber(q))
       PROVE  ToDo(j, q, RowNumber(q))
  <2>1. PICK r : r = RowNumber(q)
    OBVIOUS
  <2>2. Remains(k, q, r)
    BY <1>2, <1>3, <1>12, <1>16, <2>1 DEF ToDo, Remains
  <2> QED BY <1>11, <1>12, <2>1, <2>2, RemainsToDo
<1>17. Builds(j)
  BY <1>2, <1>3, <1>4, <1>7, <1>10, <1>14, <1>16, BuildsOn
<1> QED BY <1>1, <1>3, <1>4, <1>7, <1>13, <1>15, <1>17, ReindexStep

\* A page takes the rows up to the ones that the next page starts with.
LEMMA PageCurrent ==
    ASSUME Alone, Typed, IInv, CurrentInv, NEW w \in Workers, Page(w)
    PROVE  CurrentInv'
<1>1. PICK s : served = {s}
  BY OneServed DEF Page
<1>2. job[w].pc = "page" /\ job[w].kind = "reindex" /\ UNCHANGED <<db, queue, docs, served>>
  BY DEF Page, IInv, Shape, admin, indices
<1>3. Building(w) /\ job[w] \in Jobs
  BY <1>2, Builders
<1>4. PICK skip, page, full :
          skip = job[w].skip /\ page = LivePage(skip) /\ full = (Len(page) >= ChunkSize)
  OBVIOUS
<1>5. PICK k : k = [job[w] EXCEPT !.todo = page, !.skip = skip + ChunkSize, !.full = full]
  OBVIOUS
<1>6. To(w, AfterProduct(k))
  BY <1>4, <1>5 DEF Page
<1>7. skip \in Nat /\ skip + ChunkSize \in Nat
  BY <1>3, <1>4, ShopAssumption DEF Jobs
<1>8. /\ page \in Seq(Products)
      /\ \A q \in Products : Live(q) /\ RowNumber(q) > skip =>
            \/ \E n \in DOMAIN page : page[n] = q
            \/ RowNumber(q) > skip + ChunkSize /\ full
  BY <1>4, <1>7, PageRows
<1>9. full \in BOOLEAN
  BY <1>4
<1>10. /\ k \in Jobs /\ k.kind = "reindex" /\ k.index = job[w].index
       /\ k.todo = page /\ k.skip = skip + ChunkSize /\ k.full = full
  <2> HIDE <1>4
  <2> QED BY <1>2, <1>3, <1>5, <1>7, <1>8, <1>9 DEF Jobs
<1>11. PICK j : j = AfterProduct(k)
  OBVIOUS
<1>12. j.kind = "reindex" /\ j.pc \in {"load", "page", "resolve"} /\ j.index = job[w].index
  <2>1. Fields \subseteq DOMAIN k
    BY <1>10 DEF Jobs, Fields
  <2> QED BY <1>10, <1>11, <2>1, AfterProductOfReindex
<1>13. Reaches(j, s)
  BY <1>12, ReindexReaches
<1>14. ASSUME NEW q \in Products, Live(q), ToDo(job[w], q, RowNumber(q))
       PROVE  ToDo(j, q, RowNumber(q))
  <2>1. PICK r : r = RowNumber(q)
    OBVIOUS
  <2>2. r > skip
    BY <1>2, <1>4, <1>14, <2>1 DEF ToDo
  <2>3. DOMAIN page = 1 .. Len(page)
    BY <1>8
  <2>4. Remains(k, q, r)
    BY <1>8, <1>10, <1>14, <2>1, <2>2, <2>3 DEF Remains
  <2> QED BY <1>10, <1>11, <2>1, <2>4, RemainsToDo
<1>15. Builds(j)
  BY <1>2, <1>3, <1>12, <1>14, BuildsOn
<1> QED BY <1>1, <1>2, <1>6, <1>11, <1>13, <1>15, ReindexStep

\* A new index has nothing, and every live product is on a page to come.
LEMMA CreateCurrent ==
    ASSUME Alone, Typed, IInv, Faults, CurrentInv, NEW w \in Workers, CreateIndex(w)
    PROVE  CurrentInv'
<1>1. PICK s : served = {s}
  BY OneServed DEF CreateIndex
<1>2. PICK i : i = made + 1
  OBVIOUS
<1>3. /\ job[w].pc = "create" /\ job[w].kind = "reindex" /\ job[w].skip = 0
      /\ UNCHANGED <<db, queue, served>>
  BY DEF CreateIndex, IInv, Shape, admin, CurrentInv, AliasInv
<1>4. /\ docs' = [h \in DOMAIN docs \cup {i} |-> IF h = i THEN NoDocs ELSE docs[h]]
      /\ To(w, [job[w] EXCEPT !.pc = "page", !.index = i])
  BY <1>2, NoFaults DEF CreateIndex
<1>5. s \in DOMAIN docs /\ s # i /\ job[w] \in Jobs
  BY <1>1, <1>2 DEF Typed, DocsTyped, JobsTyped
<1>6. docs'[i] = NoDocs /\ \A q \in Products : docs'[s][q] = docs[s][q]
  BY <1>4, <1>5
<1>7. PICK j : j = [job[w] EXCEPT !.pc = "page", !.index = i]
  OBVIOUS
<1>8. j.pc = "page" /\ j.kind = "reindex" /\ j.index = i /\ j.skip = 0
  BY <1>3, <1>5, <1>7 DEF Jobs
<1>9. Reaches(j, s)
  BY <1>8, ReindexReaches
<1>10. ASSUME NEW q \in Products
       PROVE  /\ Clean(q, i)' /\ docs'[i][q] = Blank
              /\ ~Live(q) => docs'[i][q] = Wanted(q)
              /\ Live(q) => ToDo(j, q, RowNumber(q))
  <2>1. docs'[i][q] = Blank
    BY <1>6 DEF NoDocs, Blank
  <2>2. Clean(q, i)'
    BY <2>1 DEF Clean, Blank
  <2>3. ~Live(q) => Wanted(q) = Blank
    BY DEF Wanted, Blank
  <2>4. Live(q) => RowNumber(q) > 0
    <3>1. 0 \in 0 .. NProducts /\ q \in 0 .. NProducts /\ 0 < q
      BY ShopAssumption DEF Products
    <3> QED BY <3>1, NextRow, RowNumbersGrow
  <2> QED BY <1>8, <2>1, <2>2, <2>3, <2>4 DEF ToDo
<1>11. Builds(j)
  BY <1>8, <1>10 DEF Builds
<1> QED BY <1>1, <1>3, <1>4, <1>6, <1>7, <1>9, <1>11, ReindexStep

\* After the last page everything is done.
LEMMA ResolveCurrent ==
    ASSUME Alone, Typed, IInv, CurrentInv, NEW w \in Workers, Resolve(w)
    PROVE  CurrentInv'
<1>1. PICK s : served = {s}
  BY OneServed DEF Resolve
<1>2. job[w].pc = "resolve" /\ job[w].kind = "reindex" /\ UNCHANGED <<db, queue, docs, served>>
  BY DEF Resolve, IInv, Shape, admin, indices
<1>3. Building(w) /\ job[w] \in Jobs
  BY <1>2, Builders
<1>4. PICK j : /\ To(w, j)
               /\ \/ s # 0 /\ j = [job[w] EXCEPT !.pc = "swap", !.original = s]
                  \/ j = [job[w] EXCEPT !.pc = "replace"]
  BY <1>1 DEF Resolve
<1>5. /\ j.pc \in {"swap", "replace"} /\ j.kind = "reindex" /\ j.index = job[w].index
      /\ j.pc = "swap" => j.original = s /\ s # 0
  BY <1>2, <1>3, <1>4 DEF Jobs
<1>6. Reaches(j, s)
  BY <1>1, <1>2, <1>5 DEF Reaches
<1>7. \A q \in Products : ~ToDo(job[w], q, RowNumber(q))
  BY <1>2 DEF ToDo
<1>8. Builds(j)
  BY <1>2, <1>3, <1>5, <1>7, BuildsOn
<1> QED BY <1>1, <1>2, <1>4, <1>6, <1>8, ReindexStep

\* The index with the live name gives way to the one that is done.
LEMMA ReplaceCurrent ==
    ASSUME Alone, Typed, IInv, Faults, CurrentInv, NEW w \in Workers, Replace(w)
    PROVE  CurrentInv'
<1>1. PICK s : served = {s}
  BY OneServed DEF Replace
<1>2. /\ job[w].pc = "replace" /\ job[w].kind = "reindex" /\ job[w].original = 0
      /\ UNCHANGED <<db, queue>>
  BY DEF Replace, IInv, Shape, admin
<1>3. Building(w) /\ job[w] \in Jobs /\ job[w].index \in DOMAIN docs /\ job[w].index \notin served
  <2>1. Building(w) /\ job[w].index \in fresh
    BY <1>2 DEF Building, Owner, IInv, SwitchInv
  <2> QED BY <2>1 DEF Typed, JobsTyped, DocsTyped
<1>4. CASE 0 \notin served
  <2>1. PICK j : j = [job[w] EXCEPT !.pc = "cleanup"]
    OBVIOUS
  <2>2. To(w, j) /\ UNCHANGED <<docs, served>>
    BY <1>4, <2>1 DEF Replace
  <2>3. j.pc = "cleanup" /\ j.kind = "reindex"
    BY <1>2, <1>3, <2>1 DEF Jobs
  <2>4. Reaches(j, s) /\ Builds(j)
    BY <2>3, ReindexReaches DEF Builds
  <2> QED BY <1>1, <1>2, <2>2, <2>4, ReindexStep
<1>5. CASE 0 \in served
  <2>1. PICK j : j = [job[w] EXCEPT !.pc = "swap"]
    OBVIOUS
  <2>2. To(w, j) /\ DeleteIndex(0)
    BY <1>5, <2>1, NoFaults DEF Replace
  <2>3. j.pc = "swap" /\ j.kind = "reindex" /\ j.index = job[w].index /\ j.original = 0
    BY <1>2, <1>3, <2>1 DEF Jobs
  <2>4. served' = {}
    BY <1>1, <1>5, <2>2 DEF DeleteIndex
  <2>5. job[w].index # 0 /\ \A q \in Products : docs'[j.index][q] = docs[j.index][q]
    BY <1>3, <1>5, <2>2, <2>3 DEF DeleteIndex, Restrict
  <2>6. \A q \in Products : ~ToDo(job[w], q, RowNumber(q))
    BY <1>2 DEF ToDo
  <2>7. Builds(j)
    BY <1>2, <1>3, <2>3, <2>5, <2>6, BuildsOn
  <2>8. Reaches(j, 0)
    BY <2>3, <2>4 DEF Reaches
  <2> QED BY <1>2, <2>2, <2>3, <2>4, <2>7, <2>8, StepCurrent
<1> QED BY <1>4, <1>5

\* The index that goes live is done.
LEMMA SwapCurrent ==
    ASSUME Alone, Typed, IInv, Faults, CurrentInv, NEW w \in Workers, Swap(w)
    PROVE  CurrentInv'
<1>2. PICK i : i = job[w].index
  OBVIOUS
<1>3. /\ job[w].pc = "swap" /\ job[w].kind = "reindex"
      /\ UNCHANGED <<db, queue, docs>>
  BY DEF Swap, SwapOr, IInv, Shape, admin
<1>1. /\ 0 \notin served
      /\ served = {job[w].original} \/ (served = {} /\ job[w].original = 0)
  BY <1>3 DEF CurrentInv, AliasInv
<1>4. Building(w) /\ job[w] \in Jobs /\ i \in DOMAIN docs
  BY <1>2, <1>3, Builders
<1>5. /\ served' = (served \ {job[w].original}) \cup {job[w].index}
      /\ To(w, [job[w] EXCEPT !.pc = IF job[w].original = 0 THEN "cleanup" ELSE "drop"])
  BY <1>1, NoFaults DEF Swap, SwapOr
<1>6. served' = {i}
  BY <1>1, <1>2, <1>5
<1>13. PICK pc \in {"drop", "cleanup"} : To(w, [job[w] EXCEPT !.pc = pc])
  BY <1>5
<1>7. PICK j : j = [job[w] EXCEPT !.pc = pc] /\ To(w, j)
  BY <1>13
<1>8. j.pc = pc /\ j.kind = "reindex"
  BY <1>3, <1>4, <1>7 DEF Jobs
<1>9. Reaches(j, i) /\ Builds(j)
  BY <1>8, ReindexReaches DEF Builds
<1>10. \A q \in Products : /\ Erasing(q) \/ Clean(q, i)
                           /\ Queued(q) \/ docs[i][q] = Wanted(q)
  <2>1. \A q \in Products : ~ToDo(job[w], q, RowNumber(q))
    BY <1>3 DEF ToDo
  <2> QED BY <1>2, <1>4, <2>1 DEF CurrentInv, BuildInv
<1>11. \A q \in Products : Clean(q, i)' = Clean(q, i)
  BY <1>3, SameShop
<1>12. Serves(j, i)
  BY <1>3, <1>10, <1>11 DEF Serves
<1> QED BY <1>3, <1>6, <1>7, <1>9, <1>12, StepCurrent

\* The indices that are deleted are not served.
LEMMA EndCurrent ==
    ASSUME Alone, Typed, IInv, Faults, CurrentInv, NEW w \in Workers,
           DropOriginal(w) \/ Cleanup(w)
    PROVE  CurrentInv'
<1>1. PICK s : served = {s}
  BY OneServed DEF DropOriginal, Cleanup
<1>2. /\ job[w].pc \in {"drop", "cleanup"} /\ job[w].kind = "reindex"
      /\ UNCHANGED <<db, queue>> /\ job[w] \in Jobs /\ s \in DOMAIN docs
  BY <1>1 DEF DropOriginal, Cleanup, IInv, Shape, admin, Typed, JobsTyped, DocsTyped
<1>3. \/ UNCHANGED <<docs, served>>
      \/ \E i : i \notin served /\ DeleteIndex(i)
  BY DEF DropOriginal, Cleanup, IInv, SwitchInv
<1>4. served' = served /\ \A q \in Products : docs'[s][q] = docs[s][q]
  BY <1>1, <1>2, <1>3 DEF DeleteIndex, Restrict
<1>5. PICK j : To(w, j) /\ j \in {[job[w] EXCEPT !.pc = "cleanup"], Idle}
  BY DEF DropOriginal, Cleanup
<1>6. Reaches(j, s) /\ Builds(j)
  <2>1. CASE j = Idle
    BY <2>1, IdleReaches DEF Builds
  <2>2. CASE j = [job[w] EXCEPT !.pc = "cleanup"]
    <3>1. j.pc = "cleanup" /\ j.kind = "reindex"
      BY <1>2, <2>2 DEF Jobs
    <3> QED BY <3>1, ReindexReaches DEF Builds
  <2> QED BY <1>5, <2>1, <2>2
<1> QED BY <1>1, <1>2, <1>4, <1>5, <1>6, ReindexStep

-----------------------------------------------------------------------------
\* Each step keeps the promises.
LEMMA NextCurrent ==
    Alone /\ Typed /\ IInv /\ Faults /\ CurrentInv /\ [Next]_vars => CurrentInv'
<1> SUFFICES ASSUME Alone, Typed, IInv, Faults, CurrentInv, [Next]_vars PROVE CurrentInv'
  OBVIOUS
<1>1. CASE UNCHANGED vars
  <2>1. UNCHANGED <<db, queue, docs, served, job>>
    BY <1>1 DEF vars
  <2>2. \A q \in Products : /\ Queued(q)' = Queued(q) /\ Erasing(q)' = Erasing(q)
                            /\ Wanted(q)' = Wanted(q) /\ Live(q)' = Live(q)
                            /\ RowNumber(q)' = RowNumber(q)
                            /\ \A i : Clean(q, i)' = Clean(q, i)
    BY <2>1, SameShop
  <2>3. ShopInv' /\ AliasInv'
    BY <2>1 DEF CurrentInv, ShopInv, AliasInv, Live, Created
  <2>4. ReadInv' /\ ServeInv' /\ BuildInv'
    BY <2>1, <2>2 DEF CurrentInv, ReadInv, ServeInv, BuildInv, Building, Owner
  <2> QED BY <2>3, <2>4 DEF CurrentInv
<1>2. CASE Admin
  <2>1. CASE RequestReindex
    BY <2>1, RequestCurrent
  <2>2. CASE ~RequestReindex
    BY <1>2, <2>2, AdminChanges, ChangeCurrent
  <2> QED BY <2>1, <2>2
<1>3. ASSUME NEW w \in Workers, Step(w) PROVE CurrentInv'
  <2>1. CASE Load(w)
    BY <2>1, LoadCurrent, ReindexLoadCurrent
  <2>2. CASE Write(w)
    BY <2>2, WriteCurrent, ReindexWriteCurrent
  <2>3. CASE DropOriginal(w) \/ Cleanup(w)
    BY <2>3, EndCurrent
  <2> QED BY <1>3, <2>1, <2>2, <2>3, TakeCurrent, FindCurrent, EraseCurrent, CreateCurrent,
             PageCurrent, ResolveCurrent, ReplaceCurrent, SwapCurrent DEF Step
<1>4. \A w \in Workers : ~Crash(w)
  BY NoFaults
<1> QED BY <1>1, <1>2, <1>3, <1>4 DEF Next

\* The shop starts with all products indexed.
LEMMA InitCurrent == Alone /\ Init => CurrentInv
<1> SUFFICES ASSUME Alone, Init PROVE CurrentInv
  OBVIOUS
<1>1. PICK k \in 0 .. NProducts :
        /\ db = [p \in Products |->
                    IF p <= k THEN [live |-> TRUE, version |-> 1, channels |-> {Default}]
                    ELSE NoRow]
        /\ docs = [i \in served |-> [p \in Products |-> [c \in Channels |->
                    IF p <= k /\ c = Default THEN 1 ELSE 0]]]
  BY DEF Init
<1>2. /\ queue = <<>> /\ served \in {{1}, {0}}
      /\ \A w \in Workers : job[w].pc = "idle" /\ job[w].kind = "none"
  <2>1. PICK start \in Starts :
           served = IF start = "alias" THEN {1} ELSE IF start = "index" THEN {0} ELSE {}
    BY DEF Init
  <2>2. start \in {"alias", "index"}
    BY ShopAssumption DEF Alone
  <2>3. served \in {{1}, {0}}
    BY <2>1, <2>2
  <2> QED BY <2>3 DEF Init, Idle
<1>3. \A p \in Products : /\ Live(p) <=> p <= k
                          /\ Created(p) <=> p <= k
                          /\ p <= k => db[p].channels = {Default} /\ db[p].version = 1
  BY <1>1 DEF Live, Created, NoRow
<1>4. ShopInv
  BY <1>1, <1>2, <1>3 DEF ShopInv, Products
<1>5. AliasInv /\ ReadInv /\ BuildInv
  BY <1>2 DEF AliasInv, ReadInv, BuildInv, Building, Owner
<1>6. ASSUME NEW p \in Products, NEW i \in served PROVE Clean(p, i) /\ docs[i][p] = Wanted(p)
  <2>1. docs[i][p] = [c \in Channels |-> IF p <= k /\ c = Default THEN 1 ELSE 0]
    BY <1>1
  <2>2. CASE p <= k
    BY <1>3, <2>1, <2>2 DEF Clean, Wanted
  <2>3. CASE ~(p <= k)
    BY <1>3, <2>1, <2>3 DEF Clean, Wanted
  <2> QED BY <2>2, <2>3
<1>7. ServeInv
  BY <1>2, <1>6 DEF ServeInv
<1> QED BY <1>4, <1>5, <1>7 DEF CurrentInv

\* One worker whose calls succeed keeps the search index current: whatever the
\* served index says of a product is what the database says, unless a job for the
\* product waits or runs, however changes and reindexes interleave (reindex,
\* switchAlias, updateProductsOperations, deleteProductOperations).
THEOREM SearchesAreCurrent == ASSUME Alone PROVE Spec => []CurrentUnlessPending
<1>1. Typed /\ CurrentInv => CurrentUnlessPending
  <2> SUFFICES ASSUME Typed, CurrentInv, NEW p \in Products, ~Pending(p), NEW i \in served
               PROVE  docs[i][p] = Wanted(p)
    BY DEF CurrentUnlessPending
  <2>1. ~Queued(p)
    <3>1. \A n \in 1 .. Len(queue) : queue[n].kind = "reindex" => queue[n].product = 0
      BY DEF Typed, QueueTyped, Requests, ReindexJob
    <3>2. p # 0
      BY ShopAssumption DEF Products
    <3> QED BY <3>1, <3>2 DEF Pending, Queued
  <2>2. \A w \in Workers : ~Works(job[w], p)
    BY DEF Pending, Works, Busy, Reindexing
  <2> QED BY <2>1, <2>2 DEF CurrentInv, ServeInv
<1>2. Init => Faults
  BY DEF Init, Faults
<1>3. Typed /\ Faults /\ [Next]_vars => Faults'
  BY CountedFaults
<1>4. Typed /\ IInv /\ Faults /\ CurrentInv /\ [Next]_vars => CurrentInv'
  BY NextCurrent
<1> QED BY <1>1, <1>2, <1>3, <1>4, InitIInv, NextIInv, InitTyped, NextTyped, InitCurrent, PTL DEF Spec
=============================================================================
