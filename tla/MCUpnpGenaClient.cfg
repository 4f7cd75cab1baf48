\* A service, two calls of the application beside a request of the worker, and
\* two descriptors.
CONSTANTS
  App = App
  Worker = Worker
  s1 = s1
  f1 = f1
  f2 = f2
  NoFd = NoFd
  Threads = {App, Worker}
  Fds = {f1, f2}
  MaxRequests <- Requests
  Services = {s1}
  Reentrant = TRUE
SPECIFICATION FairSpec
INVARIANTS
  AnswerIsOwn
  OneConnection
  SubscribedIsHeard
PROPERTIES
  CallsReturn
CHECK_DEADLOCK FALSE
