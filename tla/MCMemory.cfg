\* Queue: three slots, counters that wrap at six, requests of up to three.
\* Sem: three tasks, two semaphores, lists in both orders.
\* Heap: blocks of two sizes, allocated while the free memory is in one piece.
CONSTANTS
  Parts = {"queue", "heap", "sem"}
  m1 = m1
  m2 = m2
  m3 = m3
  Count = 3
  Wrap = 6
  Data = {1, 2}
  Producers = {p1}
  Consumers = {c1}
  Msg <- MCMsg
  MaxReq = 3
  Sems = {m1, m2}
  Tasks = {1, 2, 3}
  IdMod = 8
  Lists <- BothOrders
  Notifiers = {"n1"}
  Listeners = {"l1", "l2", "l3"}
  SlotNum = 2
  EvIdMod = 3
  Size = 14
  Hdr = 2
  Reqs = {1, 2}
  CoroNum = 2
  PlainNum = 1
  MaxId = 3
  Exclusive = TRUE
SPECIFICATION KernelSpec
INVARIANTS MemoryOK NoOverlap MutualExclusion
PROPERTY ImplementsFifo
