--------------------------- MODULE LibPoll_proofs ---------------------------
(***************************************************************************)
(* What the operations of lib_poll.lua's table do to a table whose entries *)
(* have different descriptors: lemmas for the theorems about the server.   *)
(***************************************************************************)
EXTENDS LibPoll, TLAPS

\* The types of the table, for descriptors D, requested events E and
\* returned events R.
TableTypes(D, E, R) ==
    /\ fdsListSize \in Nat
    /\ fds \in [0 .. fdsListSize - 1 -> [fd : D, events : E, revents : R]]
    /\ nfds \in Nat
    /\ nfds <= fdsListSize
    /\ fdAddCount \in Nat
    /\ fdRemoveCount \in Nat

Distinct == \A j, k \in Live : fds[j].fd = fds[k].fd => j = k

\* The search returns the one entry of a descriptor, or -1.
LEMMA SearchFinds ==
    ASSUME nfds \in Nat, Distinct, NEW fd
    PROVE  /\ fd \in Watched => /\ fd_arr_index(fd) \in Live
                                /\ fds[fd_arr_index(fd)].fd = fd
                                /\ fd_arr_index(fd) >= 0
           /\ fd \notin Watched => fd_arr_index(fd) = -1
<1>1. ASSUME fd \in Watched
      PROVE  /\ fd_arr_index(fd) \in Live
             /\ fds[fd_arr_index(fd)].fd = fd
  <2> DEFINE Last(j) == /\ fds[j].fd = fd
                        /\ \A k \in Live : k > j => fds[k].fd # fd
  <2>1. PICK j \in Live : fds[j].fd = fd
    BY <1>1 DEF Watched
  <2>2. Last(j)
    BY <2>1 DEF Distinct, Live
  <2>3. fd_arr_index(fd) = CHOOSE i \in Live : Last(i)
    BY <2>1 DEF fd_arr_index
  <2> QED BY <2>2, <2>3
<1>2. fd \notin Watched => fd_arr_index(fd) = -1
  BY DEF Watched, fd_arr_index
<1> QED BY <1>1, <1>2 DEF Live

\* add_fd of a descriptor that is not in the table makes it the last entry,
\* inside the array, and leaves the others where they are.
LEMMA AddFd ==
    ASSUME NEW D, NEW E, NEW R, TableTypes(D, E, R), Distinct,
           -1 \in D, {} \in E, {} \in R,
           NEW fd \in D \ Watched, NEW events \in E,
           add_fd(fd, events)
    PROVE  /\ TableTypes(D, E, R)'
           /\ Distinct'
           /\ Watched' = Watched \cup {fd}
           /\ nfds' = nfds + 1
           /\ \A j \in Live : fds'[j] = fds[j]
           /\ fds'[nfds].fd = fd /\ fds'[nfds].events = events
           /\ fdsListSize' >= fdsListSize
           /\ fdAddCount' = fdAddCount + 1
           /\ fdRemoveCount' = fdRemoveCount
<1> DEFINE size == IF nfds >= fdsListSize THEN fdsListSize + fdsListAddCount
                   ELSE fdsListSize
           old == expand_fds(size)
<1>1. fd_arr_index(fd) = -1
  BY SearchFinds DEF TableTypes
<1>2. /\ fds' = [old EXCEPT ![nfds].fd = fd, ![nfds].events = events]
      /\ fdsListSize' = size
  BY <1>1 DEF add_fd, MustGrow
<1>3. /\ size \in Nat
      /\ nfds \in 0 .. size - 1
      /\ size >= fdsListSize
  BY TableAssumption DEF TableTypes
<1> HIDE DEF size
<1>4. old \in [0 .. size - 1 -> [fd : D, events : E, revents : R]]
  BY <1>3 DEF expand_fds, Fresh, TableTypes
<1>5. \A j \in Live : old[j] = fds[j]
  BY <1>3 DEF expand_fds, Live, TableTypes
<1> HIDE DEF old
<1>6. /\ fds' \in [0 .. size - 1 -> [fd : D, events : E, revents : R]]
      /\ \A j \in 0 .. size - 1 : j # nfds => fds'[j] = old[j]
      /\ fds'[nfds].fd = fd /\ fds'[nfds].events = events
  BY <1>2, <1>3, <1>4
<1>7. /\ nfds' = nfds + 1
      /\ fdAddCount' = fdAddCount + 1
      /\ fdRemoveCount' = fdRemoveCount
  BY DEF add_fd
<1>8. TableTypes(D, E, R)'
  BY <1>2, <1>3, <1>6, <1>7 DEF TableTypes
<1>9. \A j \in Live : fds'[j] = fds[j]
  BY <1>3, <1>5, <1>6 DEF Live, TableTypes
<1>10. Live' = Live \cup {nfds} /\ nfds \notin Live
  BY <1>7 DEF Live, TableTypes
<1>11. Watched' = Watched \cup {fd}
  BY <1>6, <1>9, <1>10 DEF Watched
<1>12. Distinct'
  BY <1>6, <1>9, <1>10 DEF Distinct, Watched
<1> QED BY <1>2, <1>3, <1>6, <1>7, <1>8, <1>9, <1>11, <1>12

\* remove_fd of a descriptor in the table fills its entry with the last one
\* and changes no other slot of the array; what each descriptor is watched
\* for goes with it.
LEMMA RemoveFd ==
    ASSUME NEW D, NEW E, NEW R, TableTypes(D, E, R), Distinct, -1 \in D,
           NEW fd \in Watched,
           remove_fd(fd)
    PROVE  /\ TableTypes(D, E, R)'
           /\ Distinct'
           /\ Watched' = Watched \ {fd}
           /\ nfds >= 1
           /\ nfds' = nfds - 1
           /\ \A j \in 0 .. fdsListSize - 1 :
                j # fd_arr_index(fd) => fds'[j] = fds[j]
           /\ \A j \in Live' : \E k \in Live :
                fds'[j].fd = fds[k].fd /\ fds'[j].events = fds[k].events
           /\ fdsListSize' = fdsListSize
           /\ fdAddCount' = fdAddCount
           /\ fdRemoveCount' = fdRemoveCount + 1
<1> DEFINE idx == fd_arr_index(fd)
           last == nfds - 1
<1>1. idx \in Live /\ fds[idx].fd = fd
  BY SearchFinds DEF TableTypes
<1>2. /\ nfds' = last
      /\ fdRemoveCount' = fdRemoveCount + 1
      /\ fdsListSize' = fdsListSize
      /\ fdAddCount' = fdAddCount
      /\ fds' = IF idx # last
                THEN [fds EXCEPT ![idx].fd = fds[last].fd,
                                 ![idx].events = fds[last].events]
                ELSE [fds EXCEPT ![idx].fd = -1]
  BY DEF remove_fd
<1> HIDE DEF idx
<1>3. /\ nfds >= 1
      /\ last \in Live
      /\ idx \in 0 .. fdsListSize - 1
      /\ last \in 0 .. fdsListSize - 1
  BY <1>1 DEF Live, TableTypes
<1>4. /\ fds' \in [0 .. fdsListSize - 1 -> [fd : D, events : E, revents : R]]
      /\ \A j \in 0 .. fdsListSize - 1 : j # idx => fds'[j] = fds[j]
      /\ idx # last => /\ fds'[idx].fd = fds[last].fd
                       /\ fds'[idx].events = fds[last].events
  BY <1>2, <1>3 DEF TableTypes
<1>5. TableTypes(D, E, R)'
  BY <1>2, <1>3, <1>4 DEF TableTypes
<1>6. Live' = Live \ {last}
  BY <1>2, <1>3 DEF Live, TableTypes
<1>7. \A j \in Live' : fds'[j].fd = IF j = idx THEN fds[last].fd ELSE fds[j].fd
  BY <1>1, <1>3, <1>4, <1>6 DEF Live, TableTypes
<1>8. Distinct'
  <2> SUFFICES ASSUME NEW j \in Live', NEW k \in Live', fds'[j].fd = fds'[k].fd
               PROVE  j = k
    BY DEF Distinct
  <2>1. /\ j \in Live /\ j # last /\ k \in Live /\ k # last
        /\ fds'[j].fd = IF j = idx THEN fds[last].fd ELSE fds[j].fd
        /\ fds'[k].fd = IF k = idx THEN fds[last].fd ELSE fds[k].fd
    BY <1>6, <1>7
  <2> QED BY <1>3, <2>1 DEF Distinct
<1>9. \A j \in Live' : fds'[j].fd \in Watched /\ fds'[j].fd # fd
  BY <1>1, <1>3, <1>6, <1>7 DEF Distinct, Watched
<1>10. \A j \in Live : j # idx => \E k \in Live' : fds'[k].fd = fds[j].fd
  BY <1>1, <1>3, <1>6, <1>7 DEF Watched
<1>11. Watched' = Watched \ {fd}
  BY <1>1, <1>9, <1>10 DEF Watched
<1>12. \A j \in Live' : \E k \in Live :
         fds'[j].fd = fds[k].fd /\ fds'[j].events = fds[k].events
  BY <1>1, <1>3, <1>4, <1>6 DEF Live, TableTypes
<1> QED BY <1>2, <1>3, <1>4, <1>5, <1>8, <1>11, <1>12 DEF idx

\* clear_all leaves an empty table.
LEMMA ClearAll ==
    ASSUME NEW D, NEW E, NEW R, clear_all
    PROVE  /\ TableTypes(D, E, R)'
           /\ Distinct'
           /\ Watched' = {}
           /\ nfds' = 0 /\ fdAddCount' = 0 /\ fdRemoveCount' = 0
<1>1. Live' = {} /\ 0 .. fdsListSize' - 1 = {}
  BY DEF clear_all, Live
<1>2. fds' \in [0 .. fdsListSize' - 1 -> [fd : D, events : E, revents : R]]
  BY <1>1 DEF clear_all
<1>3. Watched' = {}
  BY <1>1 DEF Watched
<1>4. Distinct'
  BY <1>1 DEF Distinct
<1> QED BY <1>2, <1>3, <1>4 DEF clear_all, TableTypes

\* A table that nothing changes.
LEMMA TableStays ==
    ASSUME Distinct, UNCHANGED tableVars
    PROVE  Distinct' /\ Watched' = Watched
BY DEF tableVars, Distinct, Watched, Live
=============================================================================
