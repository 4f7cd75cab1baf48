\* Three calls of the application, alone.
CONSTANTS
  App = App
  Worker = Worker
  s1 = s1
  f1 = f1
  f2 = f2
  NoFd = NoFd
  Threads = {App, Worker}
  Fds = {f1, f2}
  MaxRequests <- RequestsAlone
  Services = {s1}
  Reentrant = FALSE
SPECIFICATION GenaSpec
PROPERTIES
  RefusedIsSubscribed
CHECK_DEADLOCK FALSE
