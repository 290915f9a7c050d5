\* Two clients, one of which may be killed, and six runs of the client: replies
\* that nobody took stay for the next client and the next but one.  One of them
\* maps the shared record, where readers do not meet, and while it reads the
\* record may be refreshed three times.
SPECIFICATION FairSpec
CONSTANTS
  c1 = c1
  c2 = c2
  Channels <- AllChannels
  Clients = {c1, c2}
  Killable = {c2}
  Readers = {c1}
  NoClient = NoClient
  MaxTime = 4
  MaxAsks = 6
INVARIANTS OneMoment LagBounded RepliesAccounted
PROPERTIES ClientsEnd
\* The server is stopped, and the runs of the client are bounded.
CHECK_DEADLOCK FALSE
