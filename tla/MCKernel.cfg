\* Stream: eight elements through three slots, counters that wrap at six.
\* Sem: two tasks, three semaphores, lists in different orders.
\* Ev: one notifying task, more listeners than entries.
\* Yield: the first task, two coroutine slots and one heap block; callers of
\* Yield_Run exclude one another.
CONSTANTS
  Parts = {"stream", "sem", "ev", "yield"}
  m1 = m1
  m2 = m2
  m3 = m3
  Count = 3
  Wrap = 6
  Data = {1, 2}
  Producers = {p1}
  Consumers = {c1}
  Msg <- MCMsg
  MaxReq = 3
  Sems = {m1, m2, m3}
  Tasks = {1, 2}
  IdMod = 8
  Lists <- ThreeLists
  Notifiers = {"n1"}
  Listeners = {"l1", "l2", "l3"}
  SlotNum = 2
  EvIdMod = 3
  Size = 14
  Hdr = 2
  Reqs = {1, 2}
  CoroNum = 2
  PlainNum = 1
  MaxId = 3
  Exclusive = TRUE
SPECIFICATION KernelFairSpec
INVARIANTS TasksOK StreamIntact NoDeadlock Delivered IdSafe FullRound
PROPERTIES StreamEnds SomeoneServed NotifyReturns NoStarvation
