# livenode in TLA+

`livenode` (`lives`) is the live node of a recording system: it pulls live streams from
recording servers, keeps the last packets of every channel in memory and forwards them to
viewers over TCP, under the control of a media centre.  This directory holds TLA+ models of it,
the TLC runs that check them, and proofs about them checked by TLAPS.  Paths below are relative
to the repository's root; `live/` is `src/live/` and so on.

## 1. The system

One supervised process with a handful of threads:

    recording servers                       media centre
      |  TCP control, UDP media               ^ HTTP reports    | TCP commands
      v                                       |                 v
    link threads, data thread              report thread     listen thread + one thread
    (intermedia/connect_rec_server)        (intermedia/web_protocol_resolve)  per connection
      |  local socket: pointers to packets            |
      v                                               | del_live_user, get_live_user_info
    events thread (live/)  <--------------------------+
      |  TCP, edge-triggered epoll
      v
    viewers

| part | state | operations | what is hard | what makes it correct |
|---|---|---|---|---|
| events thread: `live/events_process.c`, `client.c`, `user.c`, `local_data.c` | the connection table `g_send_client`, the channel table `lds` with one linked list of packets per channel | accept, receive a packet, receive LOGIN / DATAREQ, send, close | non-blocking partial sends, edge-triggered wakeups, eviction of packets that viewers still point at, message sequences nobody wrote a test for | no cursor to a freed packet; every viewer gets one channel in order and without gaps; no lost wakeup; no media before a login; memory bounded per channel |
| lists and sockets: `reach_share/reach_list.c`, `reach_socket.c`, `reach_epoll.c` | none of their own | append, free the head, send or receive all | partial transfers | part of the handlers that call them |
| messages: `msg/media_msg.c` | none | `check_net_user`, header packing | 16-bit lengths | as inputs of the handlers |
| control link: `intermedia/connect_rec_server` | `g_connect_info`: status, sockets, reconnect and change flags per slot | connect, log in, reconnect, heartbeat, UDP timeout, exit | three kinds of threads and the web threads share a slot without a lock | a lost link is re-established; a slot has one owner; a stopped link stays stopped |
| media-centre protocol: `intermedia/web_protocol_resolve.c` | address of the media centre in memory and in a file, change flags (shared with the control link), `live_user_info` | commands over TCP, one thread per connection; reports from a SIGALRM handler | flags cleared while writers set them; one `client_info` lent to every new thread; the file written by several threads and read after a restart; tables walked while the events thread changes them | the media centre learns every link and every viewer; a connection has one thread; the next worker knows the media centre |
| HTTP client: `intermedia/http/mid_http.c` | none | post | I/O | - |
| load sampler: `reach_share/sysinfo/sys_info.c` | last occupancy of the network card | sample | an error value that passes for a low load | the bandwidth limit of LOGIN |
| policy server: `silverlight/silverlight_policy.c` | none | answer one request per connection | one blocking client | every client is answered |
| supervisor: `test/main.c` | child pid | fork, SIGCHLD handler | signals that are not queued, and one that comes before its handler | never two workers, and always one again |
| configuration: `cfg/live_cfg.c`, xml wrappers | the limits | read `LiveCfg.xml` | missing file | the limits enter the models as constants |

## 2. Modules

| module | what it is |
|---|---|
| `LiveStream` | abstract specification: what a viewer is promised, without tables, lists and sockets |
| `Relay` | the events thread of `live/`, one action per pass of each of its loops; its properties; the inductive invariant |
| `RelayProofs` | theorems about `Relay`, with their proofs |
| `RecLink` | the control links to the recording servers: the slots of `g_connect_info` under all the threads that share them; its properties |
| `MCRecLink` | values for the constants of `RecLink` |
| `RecLinkProofs` | theorems about `RecLink`, with their proofs |
| `Report` | the reports of the links to the media centre by the SIGALRM handler; EXTENDS `RecLink` and runs together with all its threads |
| `MCReport` | values for the constants of `Report` |
| `ReportProofs` | theorems about `Report`, with their proofs |
| `SlotProofs` | theorems about what an OK, a cut and an exit mean to a slot, for `RecLink` and `Report` |
| `UserReport` | the reports of the viewers: `get_live_user_info` with its cache, the threads that call it in parallel and the connection table |
| `UserReportProofs` | a theorem about `UserReport`, with its proof |
| `Supervisor` | the parent of `test/main.c` and its workers |
| `WebListen` | a worker's threads that accept media centres, and learn, keep and use their address |
| `Worker` | the composition of the two, with crashes and restarts; its properties; the inductive invariant |
| `MCWorker` | the symmetry of `Worker` |
| `WorkerProofs` | theorems about `Worker`, with their proofs |

How they fit together: `Relay` and `RecLink` meet only at the local socket, over which the data thread sends packets; in
`Relay` they are the packets `QueuePacket` takes.  `Report` shares `con` with the threads of `RecLink`, so it is checked and
proved on top of them.  `UserReport` reads of the connection table of `Relay` only who watches, and does not change
it: `seats` is all it keeps of it.  `WebListen` stops where a command is run (`RunCommand`): what a command does to the slots
is `Receive` and what follows in `RecLink`, what a query for the viewers does is a thread of `Webs` in `UserReport`.

### Relay: state and code

| variable | code |
|---|---|
| `users[u]` | `g_send_client[u-1]` (`user_t`): `kind` is `m_invalid` with the two handler pointers, `node` is `m_node`, `data` and `left` are `m_media_d` (the packet `m_last` points into, and `m_end - m_last`), the rest has the field's name |
| `registered` | the ids that own an entry of `lds` |
| `head`, `tail`, `list_len` | one linked list per channel. Only its tail grows and only its head is freed, so a list is a run of packet numbers |
| `pc`, `ev`, `alsoOut`, `fan` | where the thread is: in `epoll_wait`, `local_recv_process`, `net_recv_process`, `send_user_process` or `send_client_video_data`, and for which slot |
| `blocked`, `edge` | the kernel: a full send buffer, and an EPOLLOUT edge that `epoll_wait` has not returned yet |
| `wire`, `auth` | ghosts: the last media unit written on a connection, and whether one of its LOGINs was accepted |

`send_client_video_data` is a loop of passes, each around one `async_send_data`.  A pass
is `SendFull` (the packet is out, the next node is made ready), `SendShort(k)` (part of it),
`SendAgain` (EAGAIN at once), `SendFails` or `SendIdle` (end of the list).  `local_recv_process`
is a loop of `DropPacket` and `QueuePacket` that ends with `LocalDone` or `LocalFails`; the append,
the eviction on overflow and `set_new_req_user` are one action, as nothing comes in between in the
code.  `net_recv_process` is a loop of `NetLogin`, `NetDataReq` and `NetUnknown`.  An EPOLLIN is
followed by `send_user_process` (`FanVisit`, `FanEnd`) and by the EPOLLOUT of the same event.
Between any two passes the viewers may read (`Drain`).

What is abstracted, and why that is enough:

* A packet is a number and `PktLen` units; a send may stop after any unit.  The
  branch for an empty packet (`client.c:219`) needs a length of 0 in the header.
* The reply to a message is a success, a short write or a failure.  Its bytes are not put on
  `wire`, which follows media only.  `is_response_msg` is always false: nothing fills `m_ctl_d`.
* `NetLogin` takes the load and the outcome of `check_net_user` as inputs; a message without a body
  and EAGAIN both end `net_recv_process` (`NetDone`).
* The packet the data thread sends with `m_channel = -1` when a link closes finds no user and
  leaves no trace in the tables; it is not an input.  A viewer that asks for channel -1 is not
  one either (`IdAssumption`).
* `accept` with a full table leaks the descriptor and changes no table; `Accept` needs a free slot.
* One event per `epoll_wait`: batches, and file descriptors closed or reused inside
  one, are not modelled (section 5).
* `del_live_user` is called by another thread, without a lock, and is not in `Relay` (section 5).  All results
  about `Relay` are about a node to which the media centre sends no stop-user command.

### RecLink: state and code

| variable | code |
|---|---|
| `con[s]` | `g_connect_info[s-1]` (`connect_server_info_t`): `status` is `m_connect_status`, `bt` is `m_bt_connect`, `change` is `m_state_change`, `ip` and `room` are `m_ip_addr` and `m_channel`; `tcp` is `m_tcp_socket`, named by the link thread that opened it; `udp` says that `m_udp_socket` is filled and `quiet` that `time_udp_no_data` is set |
| `link[l]` | a thread running `create_connect_thread` for `slot`, at a place `pc` between two accesses to the slot; `greeted` counts the FIREWALL messages of its connection |
| `peer[l]` | kernel: the connection that thread opened last is open, ended by the server, or closed |
| `hearts[s]` | how many threads run `heart_thread` for the slot |
| `snap`, `timedOut` | `create_msg_data_thread`: the slots of its select set it has still to judge, and the slot it is in the middle of giving up |
| `web[w]` | a thread in `msgcode_tcp_rec_serv_func` (the report thread: in `parse_web_cmd_http_ServInfoReq`): the rooms still to connect or exit, the slot it has found |
| `exited` | ghost: `live_rec_server_exit` was the last command of a slot |
| `unheard` | ghost: the heart thread of a slot could not be created since the slot was OK last, or initialised |

Nothing in this part of the code takes a lock, so what matters is which accesses to a slot another thread can come
between.  The two that close a slot are therefore two steps each (`PollClosed` and `Lost`; `DataTimeout` and
`DataGivesUp`), the way of a link thread to OK is four (`FireOK`, `FireClears` and `FireFlags` for the stores at 623, 625 and 626, then
`StartHeart`), its exit is four (`ExitClose`, `ExitForget`, `ExitCheck`, `Reconnect`), and finding, initialising and starting a slot are three.
The stores to a slot that remain one action:

* `InitSlot`, the `memset` and what follows it: a thread that runs in between finds the slot CLOSE and empty, and acts as on the slot before, which
  was free.  Where it is not free any more, as another thread has it as well (`SlotsApart` is false), this short CLOSE is left out.
* `ExitLink`, three stores at 1214-1216: they go to three fields, the status first.  A link thread that runs in between leaves its loop and
  tests `m_bt_connect` many steps later, and only a thread that another one's cut or silence has told to reconnect would find it still set; that is
  the race between an exit and a cut, which the model has anyway.
* `DataGivesUp`, two stores at 736-737, of which nobody reads the first in between but the report.
* `FirePacks`: `m_udp_socket` and the times, one encoder after the other, before the slot is OK.

`pthread_create` may fail (`"thread" \in Faults`).  Without a heart thread (`HeartFails`, 630-633) the link thread leaves its loop, closes its sockets and
ends, as it has just cleared `m_bt_connect`: the slot is OK, with nobody in it, until the data thread times it out or a command exits it.  Without a link
thread (`CreateFails`, 1194-1199) the slot stays CONNECTING for good, and a web thread leaves out the other rooms of its command.

What is abstracted:

* Socket numbers.  A socket is the thread that opened it; a number closed twice (`send_tcp_password` and its caller) or left open
  (a login that fails after `connect`) is not visible.
* Time.  Three seconds without UDP data is the fault "udp"; sleeps and failing `connect`s that are tried again change nothing.
* The return code for a closed connection, -8, is stored in a `uint16_t` and does not match `SERVER_IS_CLOLSED` any more
  (`connect_rec_server.c:656-661`): the thread leaves its loop because of the status, one test later.  `PollClosed` models that.
* A refused password is let pass as in the code (`create_connect_thread` tests for two other results only).
* The `MSG_NEW_HEART` messages and the media data themselves are not modelled.
* The notice that the data thread sends to the events thread when a slot closes carries channel -1 and is dropped there.
* At start-up the report thread connects the rooms of its answer one by one, and finds slots as a web thread does: with two
  rooms, the slot of the first, cut meanwhile, is given to the second (as in `reclink_stolen`).
* `MaxFirewalls`: a recording server answers a DATAREQ with one FIREWALL message.  The server is not part of the
  repository; that it sends a second one on the same connection is not considered by the runs.  The theorems of section 4 allow any
  number but where they say `MaxFirewalls =< 1`.

### Report: state and code

| variable | code |
|---|---|
| `rep` | `package_web_cmd_http_LiverChannelUpdateReq` and its post: at slot `at` of the first pass (`count`), between the two accesses of the second (`clear`, `copy`), or posting; `total` and `any` are what the first pass found, `msg` the copies made so far |
| `mc` | the media centre: the last it was told of each slot |
| `missed` | ghost: the slots whose last message was not delivered |

The code runs in a SIGALRM handler of the process, in whatever thread takes the signal.  It is modelled as a thread of
its own: every step of any other thread of `RecLink` may come between two of its steps, which includes what a handler
that interrupts one of them can see.  The first report starts when the report thread has connected the rooms of its first answer
(`StartReports`).  A step reads one slot, or clears one flag: `ClearFlag` and `CopySlot` are apart because a
link may come up between them.  A slot that comes up gets its flag two stores after its status (`FireOK`, `FireFlags`), and for that long
`OKReported` counts on the thread that is to set it (`ToFlag`).  `InitSlot` and `ExitLink` are single steps for the reason given above.
A loss (`PollClosed`, `Lost`) sets no flag: the media centre goes on believing an OK
until the link is up again, so `OKReported` is about links that are up.  The query 20002 reads the same table over TCP
and is left out: it changes nothing.

### UserReport: state and code

| variable | code |
|---|---|
| `seats` | `g_send_client`: the viewer of each slot with `m_channel # -1` |
| `live_user_info` | the static list in `user.c` that the last call left behind |
| `ur[t]` | the threads that tell the media centre of the viewers: `"report"` is the SIGALRM handler in `web_post_live_user_info`, the others are web threads in `msgcode_tcp_live_users_func` (20003) up to their `r_send`. `pc` is the next walk (`total`, `count`, `fill`), the comparison with the cache (`compare`), the layout (`format`) or the post or answer (`tell`), `list` what the walk found, then the message |
| `book` | the media centre: the list it was told last |
| `lost` | ghost: the last list was not delivered, or was overtaken |

`AskTotal`, `CountViewers` and `FillList` are the three walks over the table; between them the events thread
lets viewers come and go.  A walk is one step: one that sees half of a change sees a table that is gone by then.
With more viewers in the third walk than in the second the code writes past the end of its buffers; the model only lets
the walks differ.  When `malloc` fails, or the third walk finds nobody, `get_live_user_info` returns -1, and the report is given
up or the answer is a `ReturnCode` of 0 (`NoMemory`, `GivesUp`).  A web thread that found nobody itself answers with no list, whatever the call then
finds and writes to the cache (`none`).

Any number of these threads run in parallel, and any step of one comes between two of another: the cache is written at
`Compare` (`user.c:344`), the message is laid out from it at `Format`, by then with what another thread may have written, and sent at `TellOK` or
lost at `TellFails`.  What is abstracted: `strcmp` and `memcpy` are one step, so lists torn by two threads that copy at
a time do not occur, and `memcpy` leaves the end of a longer list behind the 0; the number of viewers that goes with the list; the next command
of a web thread comes after its answer.

### Supervisor, WebListen, Worker: state and code

| variable | code |
|---|---|
| `kid[p]` | process `p`: asleep before `run_live`, running, or a zombie |
| `sup` | the parent: before its first `fork`, before it installs its handler, in its endless `sleep`, or where in `sig_child` |
| `sigchld` | the kernel: a SIGCHLD is pending (they are not counted) |
| `file` | `WEB_G_IP_MSG`; the only variable of `WebListen` that outlives a process |
| `g_web_ip` | the global of that name |
| `lis`, `posted` | `create_web_listen_thread` with its `client_info`, and the value of the semaphore |
| `srv[t]` | a thread in `create_listen_client_thread`, with its `c_client_info` and `reget_g_web_ip` |
| `open` | kernel: connections accepted and not closed |
| `rt` | `create_http_report_thread`: it reads the file, asks for its rooms until the post succeeds, then reports, or has ended |
| `unsaved` | ghost: the last attempt to write the file failed |
| `interrupted` | ghost: how often a signal has interrupted the listen thread's `sem_wait` |

`sig_child` runs with SIGCHLD blocked, so `HandleSignal` takes one signal however many workers ended.  The loop of
the handler is `Reap`, `Refork`, `ParentWakes` and again `Reap`.  A worker that ends before `Install` leaves no
signal and is never replaced: `Restarted` says what happens to a signal that is there.

`set_wet_url` is four steps (`CompareAddr`, `CopyAddr`, `OpenFile`, `WriteFile`), as several connection threads and the
report thread may be in the middle of it; the `strcpy` itself is one step.  `WriteFails` goes on as if the file had been
written, as the code looks for a result of 0.  `RunReboot` closes the connection and stops before the kill, so other threads
may go on until `Reboot`.  A crash may come anywhere (`Crash`).

`ReadFile` sets `g_web_ip` to what the file holds or leaves it: the file may not be there, `open` may fail on a file that is there
(79 creates it without a mode), and the result of `read` is not looked at.  When `pthread_create` fails (`CreateFails`) the listen thread ends,
and the connection it has just accepted is neither served nor closed.  Nobody looks at the result of `sem_wait` (1203), and the handler of SIGALRM is
installed without `SA_RESTART` (`reach_os.c:175-178`): a report that starts in the listen thread sends it back to the top of its loop
(`Interrupt`), where `client_info` is zeroed while a thread may still be about to copy it.  That thread then has no connection, or the next one, which
another thread gets as well.  A zeroed `client_info` has the descriptor 0; it stands for no connection here, and what becomes of descriptor 0
after the thread has closed it is not modelled.  `accept` and the store of its result are one step.

## 3. What the runs check

| run | configuration | shows |
|---|---|---|
| `relay_viewers` | 3 slots (ingest and two viewers), 1 channel, lists of 2, packets of 2 units, 3 packets | `CursorLive`, `ListLenExact`, `NoLostWakeup`, `EvictsOnlyLaggards`, and that `Relay` implements `LiveStream` (`StreamSpec`) |
| `relay_channels` | 2 slots, 3 channel ids with room for 2, requests 0, 1 and 4 with ids cut modulo 4 | `TypeOK`, `AuthBeforeMedia`, `FollowsRequest` while a viewer changes channels and logs in again and again |
| `relay_delivery` | 3 slots, lists of 1, 2 packets; slot 2 keeps reading | `Delivery`: it gets everything queued for it, although the other viewer may stop reading |
| `relay_limit` | two viewers, a limit of one | `OnlineWithinLimit` is violated |
| `relay_splice` | one viewer | `ReplyAtFrameBoundary` is violated |
| `reclink_tcp` | `Report`: one room in a table of two slots; TCP cuts, failing sends and threads that cannot be created anywhere, reports that may fail | `OKConnected`; `NeverAbandoned`: a link that is cut has a thread that starts over; `Reconnects`: a link that was up comes back once the network works (all three but for a slot whose heart thread could not be created); `RepTypeOK`, `OKReported`; and `OKLearned`: a link that stays up is known to the media centre in the end, unless its report was lost |
| `reclink_chaos` | one slot, two link threads, a web thread, every fault | `TypeOK`, `HeartWhileOK`, `SocketOwned` |
| `reclink_exit` | two rooms on two servers, an exit command for either, no faults | `ExitSticks`, and `Released`: the threads and sockets of an exited slot go away |
| `reclink_udp` | one room, UDP silence | `Reconnects` is violated |
| `reclink_stolen` | two rooms, two slots, TCP cuts | `Reconnects` is violated |
| `user_report` | one slot, one viewer that comes and goes, no web thread | `UsersKnown` is violated |
| `worker` | two process numbers, two media centres, two sockets, two connection threads, one interrupted wait per worker; the worker ends anywhere | `OneWorker`, `OwnConnection`, `AddressSaved`, `SignalAnswered`: the parent does not go back to waiting without a worker, and `Restarted`: a worker that ends is replaced |

Bounds.  `MaxPackets` bounds the packets per channel, in the guard of `QueuePacket`; with lists of 2 and
3 packets there is one eviction after the first packet was freed from the front of a full list, with
viewers at the head, in the middle of a packet, at the tail and not yet attached.  Two
viewers are the smallest number with which one can disturb another.  Two units per packet are
enough for a short send.  `UINT16 = 4` in `relay_channels` makes request 4 pass for
channel 0 in `is_valid_channel_id` and match no packet afterwards, as 65536 does in the code.
`CHECK_DEADLOCK FALSE`: with no viewer, or when `MaxPackets` are used up, nothing may be left to do.

Symmetry is used in `worker` only (below): in the other models slots are taken in order (`get_new_user_index`, `Traverse_gAmarry_free`).

Fairness (only in `FairSpec`, for `Delivery`): the thread never stops inside a handler (`WF` of
the send and fan-out steps); the ingest socket and a viewer's requests run dry now and then, so that the
receiving loops end (`WF` of `LocalDone` and `NetDone`; while the ingest socket stays
readable the code serves nobody); an edge in epoll's ready list is returned in the end however many
other events there are (`SF` of `EventOut`, as epoll serves the list in turn); the viewer in question
reads (`WF` of `Drain`).  Nothing is assumed of other viewers or of new connections.

Bounds of the `RecLink` runs.  Without web commands the slots do not interact, so one slot is enough in
`reclink_udp`; `reclink_tcp` has a second one that stays free, so that the passes of a report go on past the link and end
at a slot that is not in use.  In `reclink_chaos` one slot makes every collision happen: it is the
only one a web thread can find free.  `Links = 2` bounds the link threads alive at a time (a second one is
needed for two to share a slot), `MaxHearts = 2` the heart threads of a slot (one that is left over and a new one); the bounds
are guards of `CreateLink` and `StartHeart`.  `ROOM_ID_MAX` is 1.  `reclink_exit` has one command: with two, the second of which connects or exits again,
an exited slot is free while its link thread is on its way out, and the next room gets it.  The old thread then zeroes the UDP sockets of the new one, the
data thread finds it silent and sets `m_bt_connect`, and an exit that comes in between is undone; `ExitSticks` is false then, as TLC finds, and
`ExitHolds` (section 4) has the premise that excludes it.
`CHECK_DEADLOCK FALSE`: when the commands are used up and all links are exited or lost, nothing is left to do.

Fairness of `RecLink` (`FairSpec`, for `Reconnects` and `Released`): every thread goes on (`WF` per thread); in particular a
`connect` that is retried succeeds in the end and a `recv` of the login returns, which supposes a server that answers,
as the code sets no receive timeout.  `SF` of `PollFirewall`: a server that keeps the connection up sends its
FIREWALL message, and the thread, which polls again and again, gets it.  Nothing is assumed of faults
or commands.  `Reconnects` has the premise `Healed`: from some moment on the network
works (no cut, no failing send, no silence).

Fairness of `Report` (`RepFairSpec`): that of `RecLink`, and `WF` of the report's steps, as the handler sets its alarm anew
after every report, whatever became of it.  A post that fails need not succeed later: `OKLearned` has the premise that the slot
is not in `missed`.  Of `UserReport` (`UserSpec`): the same.

Bounds of `worker`.  One process number for the worker that ended and one for the next; with two, a second live worker would have
a number to take.  Two media centres are needed for the address to change, two threads for two of them to be inside
`set_wet_url` at a time, and two sockets for a connection to be accepted while the one before is served.  A socket can be
taken again once it is closed, so the run has no bound on the number of connections.  `Threads` bounds the connection threads alive, in the guard
of `CreateThread`.  `MaxInterrupts = 1`: one interruption is enough for two threads to be at their copy and for a post to be left over.
Media centres, sockets and threads are interchangeable, and `Symmetry` says so; the fairness conditions and the temporal properties are about
the processes (`supVars`), in which none of them occurs, so what TLC checks of them is not affected.
`CHECK_DEADLOCK FALSE` there, because nothing may be left to do when the parent has ended itself or when a
worker ended before `Install`.

Fairness of `worker` (`WorkerFair`): the parent goes on, and a worker that sleeps wakes up, which is the scheduler's.  Nothing is
assumed of the threads of `WebListen`: its properties are safety.

### Disagreements between documents and code

* `OnlineWithinLimit` (`pkg/readme` lines 19 and 27 announce a limit on the users online): LOGIN compares
  the limit with the users that have a channel (`user.c:266`), which a viewer gets only with
  its DATAREQ; any number of viewers may log in first.
* `ReplyAtFrameBoundary` (`client.c:33-34`: a reply may be inserted where a node has just begun to be
  sent): `net_msg_reap_send` writes to the socket at once, also in the middle of a packet.

`pkg/readme` line 49 promises reconnection after network errors between recording servers, live nodes and the media centre,
line 56 reconnection after the recording server disconnects.  `reclink_tcp` shows that this works for one room without
commands.  It does not in two cases:

* `Reconnects` in `reclink_udp`: `broadcast_udp_check_online` writes `m_connect_status` (735) before `m_bt_connect` (737).  A
  link thread that wakes up between the two leaves its loop, finds no reason to reconnect (1144) and ends.
* `Reconnects` in `reclink_stolen`: a slot that was just cut has the status CLOSE until its thread has come to 1146, and CLOSE
  is what `Traverse_gAmarry_free` takes for free.  The room named by the next command gets the slot; the first room is lost.

`pkg/readme` line 29 lists as solved a wrong number of users at the media centre after the same user has left and come back.

* `UsersKnown` in `user_report`: without a viewer, a total of 0 is posted and `live_user_info` is left as it was
  (`web_protocol_resolve.c:393-409`).  When the same viewer is back by the next report, its list is the one in
  `live_user_info` (`user.c:333-341`), nothing is posted, and the media centre keeps the 0.

More consequences can be read off the models but have no run of their own:

* A login that fails after `connect` goes to EXIT, where only `m_bt_connect` leads back.  It is 0 until the link was up
  once: a room whose first login is cut is never tried again (`reclink_tcp` asks for rooms that were received once).
* `ExitSticks` holds in `reclink_exit`, where nothing is cut.  With `Faults = {"fin"}` or `{"udp"}` TLC finds it violated: what
  `live_rec_server_exit` clears is set again by a link thread between 547 and 548 or past the test at 1144, or by the
  data thread at 737.
* The entries a command does not fill hold -2, and `msgcode_tcp_rec_serv_func` connects everything that is
  not -1: a command for one room takes up to ten slots.
* A first answer of the media centre that cannot be parsed, or that refuses, ends the report thread: no report is ever made (`AskServInfo`).
* A failing `pthread_create` ends the listen thread for good (`CreateFails` of `WebListen`): the worker takes no more commands until it is restarted, and
  the connection it has accepted last is left open.
* A heart thread that cannot be created leaves its slot OK without a link thread (`HeartFails`): `HeartWhileOK`, `OKConnected`, `NeverAbandoned` and
  `Reconnects` all have to except it (`unheard`).  The data thread ends this state, if at all, by timing the slot out; nobody reconnects it.
* With two link threads on a slot, one may note its cut at 547-548 between the other's stores at 623 and 625: the slot is CLOSE with `m_bt_connect` clear, and
  both threads end.  `NeverAbandoned` is false there; `TakenUpAgain` needs one link thread per slot.
* An interrupted `sem_wait` loses a connection or gives it to two threads: `OwnConnection` holds up to the first interruption only.

## 4. What is proved

`RelayProofs` proves for all values of the constants that satisfy the assumptions of `Relay` (positive table
size, list bound and packet length; channel ids that fit 16 bits; no request for -1):

| theorem | statement |
|---|---|
| `Invariance` | `Spec => []IInv` |
| `TypeCorrect`, `CursorSafety`, `ListLength`, `WakeupSafety`, `LoginFirst`, `RequestFollowed` | the invariants of the runs |
| `EvictionOnlyOfLaggards` | `Spec => EvictsOnlyLaggards` |
| `Implements` | `Spec => StreamSpec`: `Relay` implements `LiveStream` |

None of the invariants is inductive alone.  That no cursor dangles needs that an eviction
closes everybody at the head, which is enough only if cursors are in the list to begin with and the
counter that triggers the eviction is the length of the list.  That the wire continues where it stopped needs
the exact relation between `m_send_status`, `m_media_d` and what was written (`Cursor` and `NoCursor`).  That no
wakeup is lost needs to know, in the middle of a fan-out, which slots were already served
(`Served`, `WakeInv`), and that the user being sent to is a user to send to (`ThreadInv`).  `IInv` is the conjunction of
these.  The proof has a lemma per action; those that touch one slot go through `OneUser` and `WakeKept`,
the pass of the send loop through `PreparedReady` and `ReadyNextCursor`, the eviction through `QueueLists` and
`QueueUser`.  For the two action-level theorems, `Moves` sorts every step into four kinds (it
leaves list and wires alone, resets a wire, extends a wire by a send, queues a packet), and each kind is mapped
to steps of `LiveStream`.

`RecLinkProofs` proves, for every table size, any set of link, web and heart threads, all servers, requests and faults (assumptions: the
table and the bounds are positive or natural, requests are not longer than `ROOM_ID_MAX`, start-up rooms are not -1):

| theorem | statement |
|---|---|
| `Invariance` | `Spec => []IInv`, `IInv` being the conjunction of the three below |
| `TypeCorrect` | `Spec => []TypeOK` |
| `Heartbeats` | `Spec => []HeartWhileOK`; the slots in `unheard` are the only exception |
| `SocketOwnership` | `Spec => []SocketOwned` |

The three need each other little: types give that a link thread has a slot; that an owner of a socket
does not vanish needs its place (`Owners`), which is part of `SocketOwned`.  Almost every step of a
link thread is an instance of `LinkKeeps` (the thread moves to `p`, its slot becomes `c`), every step of another thread that
writes a slot is one of `SlotKeeps`.

`ReportProofs` proves, under the same assumptions and that `NoBox` is no server's address:

| theorem | statement |
|---|---|
| `RepTypeCorrect` | `RepSpec => []RepTypeOK` |
| `Reported` | `RepSpec => []OKReported`: clearing each flag before its slot is copied loses no link that is up |
| `ReportsHarmless` | `RepSpec => [](HeartWhileOK /\ SocketOwned)`: with the reports running, the results about `RecLink` still hold |

The invariant `RepInv` is that of `RecLink` (`IInv`), the types of the report with the fact that its first pass has counted
no more slots than it has seen (`MsgOK`), that a slot which is OK or which a thread works on was initialised once, so
that the second pass does not skip it (`SlotsUsed`), and `OKReported`.  For the steps of `RecLink`, `NextKept` says all that the report's
half needs to know of them: a slot that is OK afterwards has its flag set, or was OK before and is unchanged in what is reported of it.

`SlotProofs` is about the three properties of a slot that depend on who shares it, under the same assumptions.  Each theorem holds for
`Spec` and for `RepSpec`, and each supposes at most one FIREWALL message per connection (`MaxFirewalls =< 1`):

| theorem | under which further restrictions | statement |
|---|---|---|
| `Connected` | `[]SlotsApart`; every fault | `[]OKConnected` |
| `OneRoomConnected` | one room at start-up, commands to leave only; every fault | `[]OKConnected` |
| `UncutConnected` | only the fault "send", no request that exits, `[]WebsApart` | `[]OKConnected` |
| `StartUpConnected` | only the fault "send", no requests; any rooms at start-up | `[]OKConnected` |
| `TakenUpAgain` | no fault "udp" or "thread", `[]SlotsApart` | `[]NeverAbandoned` |
| `OneRoomTakenUp` | no fault "udp" or "thread", one room at start-up, commands to leave only | `[]NeverAbandoned` |
| `ExitHolds` | only the fault "send", `[]SlotsApart` | `[]ExitSticks` |
| `OneRoomExit` | only the fault "send", one room at start-up, commands to leave only | `[]ExitSticks` |

The restrictions are those under which the properties are true, and the runs show what happens without them:

* `SlotsApart` (`RecLink`): a web thread initialises and starts no slot that another web thread, or a link thread, works on.  The code takes it for
  granted when it looks for a slot that is CLOSE, and does not see to it: in `reclink_stolen` a link thread is on its way to reconnect.
  That is why it is a premise and not a lemma.  Without it all three properties are false (section 3).  The `OneRoom` theorems derive it from the initial state, as
  with one room nobody looks for a second slot, and so do `UncutConnected` and `StartUpConnected`: where nothing is cut or exited a slot with a thread is not CLOSE (`StartInv`).
* `WebsApart` is the half of it about web threads: two of them may find one slot between the scan (131) and the initialisation
  (222) of `web_protocol_resolve.c`.
* No cut and no silence in `ExitHolds`: with either, `ExitSticks` is false (section 3).  "send" may occur in all of them.
* No silence in `TakenUpAgain`: `DataTimeout` takes a slot out of OK before `DataGivesUp` sets `m_bt_connect`, which is the gap of `reclink_udp`.
* "thread": `OKConnected` excepts the slots in `unheard`, so `Connected` and `OneRoomConnected` allow it.  In the others a slot without a heart thread would
  be OK, and in time CLOSE, without a link thread, and the data thread's time-out of it is the silence they exclude.
* One FIREWALL message per connection: the server is not part of the repository.  A second one would bring a thread back
  to the middle of `deal_broadcast_msg_tcp` with the slot OK.

The proofs first sort every step by its effect on a slot and a thread's place (`Effect` for link threads, `CommandEffect` for
web threads, `DataEffect` for the rest; `NextEffect` and `RepNextEffect` say that every step is one of them), so each
invariant is proved once for both specifications.  The inductive invariants:

* `LifeInv`: one link thread per slot, and for each what its place tells of the slot (`Sound`): from its request on `m_tcp_socket` is its own,
  it has been greeted when it handles a FIREWALL message, and the slot, unless it is in `unheard`, is OK only from the store at 623 on to the end of the receive loop.
* `CalmInv`: `LifeInv`, and the data thread finds no slot silent (`QuietInv`): without "udp" and "thread" only a slot without UDP sockets is quiet, and none
  in its select set is.  So the steps of the data thread leave `m_connect_status` and `m_bt_connect` as they are (`Calm`).
* `AbandonInv`: `NeverAbandoned`, a slot with `m_bt_connect` set has a link thread, and the slot of a thread between 623 and 625 is not CLOSE
  unless it was exited.  The last part is what a second link thread on the slot would break.
* `ExitInv`: a link thread that may yet make its slot OK (`Expecting`) has a slot that is CONNECTING and was not exited (`ExpectInv`); there is none in a slot that a web
  thread is to exit (`WebsWait`); and nothing has been cut (`Uncut`), as no server closes a connection (`NoFin`).
* `StartInv`: a slot with a thread is not CLOSE, nor is one that waits for its thread, and the rooms to do exit nothing (`JoinsOnly`).
* `OneRoomInv`: while the start-up is at work on the room no slot has a link thread and none is OK, so a command to leave finds nothing to exit.

`UserReportProofs` proves `CacheIsTold`, `UserSpec => []CacheTold`: for any table, any viewers and any number of web threads,
what the next report will compare with is the list the media centre was told, or a thread is at work on a message with it (`Carries`), or the media centre was told
that nobody watches, unless the last list was lost or overtaken.  The second alternative covers the time from `user.c:344` to the `r_send` or the post; the
third is the gap of `UsersKnown`, and the theorem says there is no other.  `CacheInv` adds what a message that is not stale was taken from.

`WorkerProofs` proves, for any sets of processes, media centres, sockets and threads (`AddrAssumption`: the two null values are not among them):

| theorem | statement |
|---|---|
| `WorkerTypeCorrect` | `WorkerSpec => []WorkerTypeOK` |
| `SingleWorker` | `WorkerSpec => []OneWorker` |
| `ConnectionsOwned` | `WorkerSpec => []OwnConnection` |
| `AddressKept` | `WorkerSpec => []AddressSaved` |
| `SignalsAnswered` | `WorkerSpec => SignalAnswered` |

`WInv` has a part for each.  One worker at a time needs that zombies count too, and that the parent forks only with no process left (`KidInv`).
`SignalsAnswered` rests on its other half: once the parent has forked, a process that it has not waited for is there in every state but `refork`, so
a `waitpid` that finds no zombie leaves a live worker behind, and before there is a handler no signal is pending.
That a connection is never held twice, and never lost but when its thread cannot be created (`SockInv`), needs the semaphore protocol: at most one thread is at its copy,
and the listen thread waits for it with the semaphore down (`LoanInv`).  Both are claimed while `interrupted` is 0; the types and `AddrInv` hold beyond.
That the file is up to date when nobody is writing needs
the case of a worker that has not read it, yet or at all (`AddrInv`); it holds with several writers because each writes `g_web_ip` as it is
when it writes, and not the address it came with.

Only model-checked: `Delivery`, `Reconnects`, `Released`, `OKLearned` and `Restarted`, as liveness under fairness is out of
the prover's reach.  Every safety property of a passing run has a theorem; `OKConnected`, `NeverAbandoned` and `ExitSticks` under
the restrictions named above.  `OneRoomConnected` covers `reclink_tcp`; `NeverAbandoned` holds there with "thread" as well, which the theorem excludes.
In `reclink_exit` two link threads can share a slot, as an exited slot is given to the second room while its thread is on its way out: the run checks
`ExitSticks` there too, beyond the premise of `ExitHolds`.  No module has a recursive operator, and no proof needs induction over data.

## 5. Not modelled, and why

* `del_live_user`, called by a web thread on the table of the events thread: it may free what `send_client_video_data`
  is using, at any instruction of it.  What a race of this kind does is undefined, and a model that picks some of its outcomes
  would show nothing.  The results about `Relay` exclude the stop-user command for this reason.
* Batches of epoll events and reused descriptors.  `Relay` names connections by their slot.  Descriptors would
  have to be carried through every action and every lemma, for a case in which the code has no logic of its own.
* The byte stream of a connection: headers and bodies torn by EAGAIN, and the 16-bit length of a message.  `NetDone` and `NetFails`
  stand for all a torn message can lead to at the level of the tables.
* The UDP data path (`live_rec_server_recv_data`): it copies packets and keeps no state but the two times that the fault "udp" stands for.
* The policy server: one thread, one connection at a time, nothing shared.
* The load sampler: arithmetic over `/proc`.  Its value is an input of `NetLogin`; that a sampling error ends it and leaves -1 behind, which
  passes for a low load, can be read at `reach_share/sysinfo/sys_info.c:259`.
* The death of a new worker during its first two seconds, or of one that ends before the parent's handler is installed: `Die` is about a worker that runs, and
  the second case is outside the premise of `Restarted`.
* The layouts of messages, the XML wrappers, the HTTP client's use of libcurl and the configuration reader: formatting and I/O without
  state of their own.  Their failures are inputs of the actions that call them.
* The queries 20002 and 20004, which only read.
* The vendored headers of libxml2 and libcurl (most of the repository's lines), the install scripts, and
  `intermedia/sysinfo`, a copy that is not built.
