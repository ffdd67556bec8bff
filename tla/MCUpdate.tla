------------------------------ MODULE MCUpdate -------------------------------
(***************************************************************************)
(* Model checking the update of a device: the bootloader and the updater    *)
(* (Updater), the bootloader and a partner that sends any command           *)
(* (Bootloader), and an update in differential mode (FlashDiff).  A         *)
(* behaviour belongs to one of the three parts, and the others do not move. *)
(***************************************************************************)
EXTENDS Updater, FlashDiff

CONSTANT MaxCommands   \* bound: commands of any kind that change the flash

VARIABLES
    part,
    changing           \* the number of those that were sent

updateVars == <<part, changing, updaterVars, diffVars>>

\* The new application is longer than the old one; its last block ends in
\* the middle of a page.
MCImages == [old |-> [first |-> 6, length |-> 4], new |-> [first |-> 6, length |-> 5]]
MCBlocks == {1, 2}

Aligned == {a \in Addresses : a % PageCells = 0}

\* Commands that do not touch the flash, and those that do, with any range
AnyLight ==
    {[cmd |-> "UNLOCK_DEVICE"], [cmd |-> "RESTART"], [cmd |-> "MASTER_RESET"],
     [cmd |-> "SEND_DATA", data |-> << AppCell("new", 1) >>],
     [cmd |-> "SEND_DATA", data |-> << DescCell("new", (ramBufferPositon % 2) + 1) >>]}
AnyHeavy ==
    {[cmd |-> "ERASE_COMPLETE_FLASH"],
     [cmd |-> "UPDATE_BOOT_DESC", count |-> 2, data |-> Descriptor("new")]}
      \cup {[cmd |-> "ERASE_ADDRESSRANGE", first |-> a, count |-> n] :
              a \in Aligned, n \in 1 .. FlashCells}
      \cup {[cmd |-> "PROGRAM", first |-> a, count |-> n, data |-> SubSeq(ramBuffer, 1, n)] :
              a \in Aligned, n \in 1 .. BufferCells}
AnySend ==
    /\ request = << >> /\ answer = << >> /\ calls = << >>
    /\ \/ /\ \E c \in AnyLight : request' = << c >>
          /\ UNCHANGED changing
       \/ /\ changing < MaxCommands
          /\ \E c \in AnyHeavy : request' = << c >>
          /\ changing' = changing + 1
    /\ UNCHANGED <<flash, ramVars, mode, workVars, answer>>
AnyReceive ==
    /\ answer # << >> /\ answer' = << >>
    /\ UNCHANGED <<flash, ramVars, mode, workVars, request, changing>>
AnyNext ==
    \/ AnySend \/ AnyReceive
    \/ (BootloaderNext \/ PowerFail \/ PowerUp) /\ UNCHANGED changing

\* One of the initial states of a part that does not move
Idle ==
    /\ \A i \in DOMAIN old : old[i] = 0
    /\ \A i \in DOMAIN new : new[i] = 0
    /\ Len(old) = CHOOSE n \in OldLengths : TRUE
    /\ Len(new) = CHOOSE n \in NewLengths : TRUE

UpdateInit ==
    /\ part \in {"update", "commands", "diff"}
    /\ UpdaterInit /\ DiffInit /\ changing = 0
    /\ part # "diff" => Idle

UpdateNext ==
    \/ part = "update" /\ Next /\ UNCHANGED <<part, changing, diffVars>>
    \/ part = "commands" /\ AnyNext /\ UNCHANGED <<part, runVars, tryVars, faults, diffVars>>
    \/ part = "diff" /\ DiffNext /\ UNCHANGED <<part, changing, updaterVars>>

UpdateSpec ==
    /\ UpdateInit /\ [][UpdateNext]_updateVars
    /\ part = "update" => UpdaterFairness

\* What the updater takes for done is done: an update that reports success, in
\* full or in differential mode, has left the new application in the flash, and
\* on the way there both sides agree on what is in it.
SuccessMeansNew ==
    /\ part = "update" => CountedIsProgrammed /\ DoneStartsNew
    /\ part = "diff" => RecordsAgree /\ EndsWithNew

\* Every update that is started again whenever it failed ends with the new
\* application running.
EveryUpdateEnds == part = "update" => EventuallyNew
=============================================================================
