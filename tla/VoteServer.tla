------------------------------ MODULE VoteServer ------------------------------
(***************************************************************************)
(* The server on which dancers see what is played and vote for it          *)
(* (src/src/LocalVoteServer.cpp), the page in a dancer's browser           *)
(* (src/res/VoteServer/static/lvs.js), the requests between them, and the  *)
(* library that stores the votes (LibraryExchange.tla).                    *)
(*                                                                         *)
(* The page asks for new songs every second, whether or not the former     *)
(* question has been answered, so answers may come in any order, late or   *)
(* never.  Each request has a connection; there are a few of them.  Songs  *)
(* are told by their hashes, their places in the history count from 0 as   *)
(* in the code.                                                            *)
(***************************************************************************)
EXTENDS LibraryExchange

CONSTANTS
  Home,        \* the library of the program that the server is part of
  Pages,       \* the pages open in the dancers' browsers
  Connections, \* bound: the connections of each page
  Value,       \* what the dancers vote
  MaxPlays,    \* bound on the songs played
  MaxVotes,    \* bound on the votes sent
  MaxLosses,   \* bound on the requests and answers that are lost
  MaxStops     \* bound: how often the server is stopped or the program started anew

ASSUME VoteServerAssumption ==
  /\ Home \in Libraries /\ Value \in Values
  /\ {MaxPlays, MaxVotes, MaxLosses, MaxStops} \subseteq Nat
  /\ MaxDays >= MaxPlays + MaxVotes

VARIABLES
  mHistory,      \* the songs started since the program was started
  isStarted,     \* whether the server listens
  run,           \* how often the program has been started
  maxSongIndex,  \* g_MaxSongIndex of each page
  songs,         \* what each page shows, the newest song last
  openedIn,      \* history: the run of the program in which the page was loaded
  net,           \* what is under way on each connection
  losses, stops,
  sent           \* the number of votes sent

vars == <<exchangeVars, mHistory, isStarted, run, maxSongIndex, songs, openedIn, net, losses, stops, sent>>
pageVars == <<maxSongIndex, songs, openedIn>>
serverVars == <<mHistory, isStarted, run>>

Silent == [kind |-> "silent"]

(* What a page that was just loaded shows. *)
NewPage == [max |-> -1, songs |-> <<>>]

ServerInit ==
  /\ Init
  /\ mHistory = <<>> /\ isStarted = TRUE /\ run = 1
  /\ maxSongIndex = [p \in Pages |-> NewPage.max] /\ songs = [p \in Pages |-> NewPage.songs]
  /\ openedIn = [p \in Pages |-> 1]
  /\ net = [p \in Pages |-> [c \in Connections |-> Silent]]
  /\ losses = 0 /\ stops = 0 /\ sent = 0

-----------------------------------------------------------------------------
(* The page *)

Send(p, c, message) == net[p][c] = Silent /\ net' = [net EXCEPT ![p][c] = message]

PollPlaylist(p, c) ==
  /\ Send(p, c, [kind |-> "playlist", start |-> maxSongIndex[p] + 1])
  /\ UNCHANGED <<exchangeVars, serverVars, pageVars, losses, stops, sent>>

Vote(p, c, category, hash) ==
  /\ hash \in ToSet(songs[p])
  /\ Send(p, c, [kind |-> "vote", category |-> category, hash |-> hash])
  /\ sent < MaxVotes /\ sent' = sent + 1
  /\ UNCHANGED <<exchangeVars, serverVars, pageVars, losses, stops>>

IsNew(entry, max) == entry.index > max

(* One song after the other is added, if it is newer than what is shown. *)
AddSongs(page, entries) ==
  LET shown[n \in 0..Len(entries)] ==
        IF n = 0 THEN page
        ELSE IF IsNew(entries[n], shown[n - 1].max)
             THEN [max |-> entries[n].index, songs |-> Append(shown[n - 1].songs, entries[n].hash)]
             ELSE shown[n - 1]
  IN  shown[Len(entries)]

Answered(p, c) ==
  /\ net[p][c].kind = "answer"
  /\ LET shown == AddSongs([max |-> maxSongIndex[p], songs |-> songs[p]], net[p][c].entries)
     IN  /\ maxSongIndex' = [maxSongIndex EXCEPT ![p] = shown.max]
         /\ songs' = [songs EXCEPT ![p] = shown.songs]
  /\ net' = [net EXCEPT ![p][c] = Silent]
  /\ UNCHANGED <<exchangeVars, serverVars, openedIn, losses, stops, sent>>

(* The page is loaded again, from the running server. *)
Reload(p) ==
  /\ isStarted /\ openedIn[p] # run
  /\ maxSongIndex' = [maxSongIndex EXCEPT ![p] = NewPage.max] /\ songs' = [songs EXCEPT ![p] = NewPage.songs]
  /\ openedIn' = [openedIn EXCEPT ![p] = run]
  /\ net' = [net EXCEPT ![p] = [c \in Connections |-> Silent]]
  /\ UNCHANGED <<exchangeVars, serverVars, losses, stops, sent>>

Lose(p, c) ==
  /\ net[p][c] # Silent /\ losses < MaxLosses /\ losses' = losses + 1
  /\ net' = [net EXCEPT ![p][c] = Silent]
  /\ UNCHANGED <<exchangeVars, serverVars, pageVars, stops, sent>>

-----------------------------------------------------------------------------
(* The server *)

(* Mutant: the newest song is left out. *)
EntriesButLast(start) == [i \in 1..(Len(mHistory) - start - 1) |-> [index |-> start + i - 1, hash |-> mHistory[start + i]]]

(* The songs from the place that was asked for; none when it is beyond the end. *)
Entries(start) == [i \in 1..(Len(mHistory) - start) |-> [index |-> start + i - 1, hash |-> mHistory[start + i]]]

ApiPlaylist(p, c) ==
  /\ isStarted /\ net[p][c].kind = "playlist"
  /\ net' = [net EXCEPT ![p][c] = [kind |-> "answer", entries |-> Entries(net[p][c].start)]]
  /\ UNCHANGED <<exchangeVars, serverVars, pageVars, losses, stops, sent>>

(* The vote is handed to the library; the page does not look at the answer. *)
ApiVote(p, c) ==
  /\ isStarted /\ net[p][c].kind = "vote"
  /\ AddVote(Home, net[p][c].category, net[p][c].hash, Value)
  /\ net' = [net EXCEPT ![p][c] = Silent]
  /\ UNCHANGED <<serverVars, pageVars, losses, stops, sent>>

Api(p, c) == ApiPlaylist(p, c) \/ ApiVote(p, c)

(* A closed server takes no connection: the request fails. *)
Refuse(p, c) ==
  /\ ~isStarted /\ net[p][c].kind \in {"playlist", "vote"}
  /\ net' = [net EXCEPT ![p][c] = Silent]
  /\ UNCHANGED <<exchangeVars, serverVars, pageVars, losses, stops, sent>>

(* A song is played: the library and the server hear of it. *)
StartedPlayback(hash) ==
  /\ Len(history[Home]) < MaxPlays
  /\ SongPlaybackStarted(Home, hash)
  /\ mHistory' = Append(mHistory, hash)
  /\ UNCHANGED <<isStarted, run, pageVars, net, losses, stops, sent>>

StopServer ==
  /\ isStarted /\ isStarted' = FALSE
  /\ stops < MaxStops /\ stops' = stops + 1
  /\ UNCHANGED <<exchangeVars, mHistory, run, pageVars, net, losses, sent>>

StartServer ==
  /\ ~isStarted /\ isStarted' = TRUE
  /\ UNCHANGED <<exchangeVars, mHistory, run, pageVars, net, losses, stops, sent>>

(* The program quits and is started again: the library is as it was, the    *)
(* server is started if it was, and knows of no song.                       *)
Restart ==
  /\ stops < MaxStops /\ stops' = stops + 1
  /\ run' = run + 1 /\ mHistory' = <<>>
  /\ net' = [p \in Pages |-> [c \in Connections |-> IF net[p][c].kind = "answer" THEN net[p][c] ELSE Silent]]
  /\ UNCHANGED <<exchangeVars, isStarted, pageVars, losses, sent>>

-----------------------------------------------------------------------------
Page(p) ==
  \/ Reload(p)
  \/ \E c \in Connections :
       \/ PollPlaylist(p, c) \/ Answered(p, c) \/ Lose(p, c)
       \/ \E category \in Categories, hash \in Songs : Vote(p, c, category, hash)

Server ==
  \/ \E p \in Pages, c \in Connections : Api(p, c) \/ Refuse(p, c)
  \/ \E hash \in Songs : StartedPlayback(hash)
  \/ StopServer \/ StartServer \/ Restart

ServerNext == Server \/ \E p \in Pages : Page(p)

(* The page's timer runs for ever, and what is sent arrives unless it is    *)
(* lost or refused.                                                         *)
Fairness ==
  \A p \in Pages :
    /\ WF_vars(\E c \in Connections : PollPlaylist(p, c))
    /\ \A c \in Connections : WF_vars(Answered(p, c) \/ Api(p, c) \/ Refuse(p, c))

ServerSpec == ServerInit /\ [][ServerNext]_vars /\ Fairness

-----------------------------------------------------------------------------
Fresh(p) == openedIn[p] = run

(* A page that was loaded since the program was started shows the songs in  *)
(* the order in which they were played, none of them twice and none left    *)
(* out, in whatever order its questions are answered.                       *)
PagesShowTheHistory ==
  \A p \in Pages : Fresh(p) => IsPrefix(songs[p], mHistory) /\ maxSongIndex[p] = Len(songs[p]) - 1

(* Every song that is played appears on such a page, however many requests  *)
(* are lost, unless the server is stopped or the program started anew.      *)
SongsReachPages ==
  \A p \in Pages, n \in 1..MaxPlays :
    (Len(mHistory) >= n /\ Fresh(p)) ~> (Len(songs[p]) >= n \/ ~Fresh(p) \/ ~isStarted)
=============================================================================
