------------------------------- MODULE Devices --------------------------------
(***************************************************************************)
(* The two halves of the sound device (audio/alsa_devices.cc) and the      *)
(* rules that serve them (audio/audio_task.cc): what the microphone has is *)
(* copied to the headphone, and both are set up anew when either has       *)
(* stopped.  One clock drives both halves, and goes on while they are      *)
(* served.  The samples themselves are left out, and the cursor, which     *)
(* AudioClient follows.                                                    *)
(*                                                                         *)
(* The driver and alsa-lib are external: a half keeps its state, its ring  *)
(* and its place in it (snd_pcm_mmap_begin returns no more frames than to  *)
(* the ring's end); a running half stops at its stop threshold, and what   *)
(* is mapped of a stopped half can still be used.                          *)
(***************************************************************************)
EXTENDS Integers, FiniteSetsExt

CONSTANTS
    BufferSize,       \* config_.buffer_size
    AvailMinimum,     \* config_.avail_minimum
    StartThreshold,   \* config_.start_threshold
    SkipThreshold,    \* config_.skip_threshold
    MaxBacklog,       \* how many samples may pass from one update to the next
    MaxStalls         \* bound on how often the program is held up for longer

(* A loop that is later writes to a headphone that has no room left.       *)
ASSUME DeviceConstants ==
    /\ {BufferSize, AvailMinimum, StartThreshold, SkipThreshold, MaxBacklog, MaxStalls} \subseteq Nat
    /\ StartThreshold + 2 * MaxBacklog < BufferSize

VARIABLES
    pcm_state,   \* snd_pcm_state of each half
    held,        \* the frames in each half's ring: captured, or to be played
    place,       \* where in its ring the program reads or writes next
    avail_,      \* the microphone's, at its last update
    delay_,      \* the headphone's, at its last update
    remaining,   \* avail_remaining
    at,          \* where the program is: in the loop, or in loopback
    late,        \* samples since the last update
    stalls,
    failed       \* an exception was thrown

driver_vars == <<pcm_state, held, place>>
device_vars == <<driver_vars, avail_, delay_, remaining, at, late, stalls, failed>>

mic == "Microphone"
phones == "Headphone"

(* The constructor and initialize: a half is opened, its hardware and then *)
(* its software parameters are set, and its state is checked before and    *)
(* after; the whole program starts the microphone, outside this module.    *)
initialize == [half \in {mic, phones} |-> "PREPARED"]
stop_threshold == BufferSize - 1

DevicesInit ==
    /\ pcm_state = [initialize EXCEPT ![mic] = "RUNNING"]
    /\ held = [half \in {mic, phones} |-> 0]
    /\ place = [half \in {mic, phones} |-> 0]
    /\ avail_ = 0 /\ delay_ = 0 /\ remaining = 0
    /\ at = "loop" /\ late = 0 /\ stalls = 0 /\ failed = FALSE

------------------------------------------------------------------------------
(* The driver.                                                             *)
Level(half) == IF half = mic THEN held[mic] ELSE BufferSize - held[phones]

Elapse(n) ==
    LET moved == [half \in {mic, phones} |->
                    IF pcm_state[half] # "RUNNING" THEN held[half]
                    ELSE IF half = mic THEN Min({held[mic] + n, BufferSize})
                    ELSE Max({held[phones] - n, 0})] IN
    /\ held' = moved
    /\ pcm_state' = [half \in {mic, phones} |->
          IF pcm_state[half] = "RUNNING" /\ Level(half)' >= stop_threshold THEN "XRUN"
          ELSE pcm_state[half]]
    /\ UNCHANGED <<place, avail_, delay_, remaining, at, failed>>

Captures == late < MaxBacklog /\ late' = late + 1 /\ Elapse(1) /\ UNCHANGED stalls
Stall == stalls < MaxStalls /\ stalls' = stalls + 1 /\ Elapse(BufferSize) /\ UNCHANGED late

------------------------------------------------------------------------------
(* check_state, drop, prepare and start, on a half whose state is s: each  *)
(* checks the state that it finds and the one that it leaves.              *)
start(s) == IF s = "PREPARED" THEN "RUNNING" ELSE "error"
drop(s) == IF s = "OPEN" THEN "error" ELSE "SETUP"
prepare(s) == IF s = "SETUP" THEN "PREPARED" ELSE "error"
recover(s) == prepare(drop(s))

(* AudioPair::recover.                                                     *)
recover_pair == [pcm_state EXCEPT ![mic] = start(recover(@)), ![phones] = recover(@)]

(* A half that is prepared has an empty ring.                              *)
Recover ==
    /\ pcm_state' = recover_pair
    /\ held' = [half \in {mic, phones} |-> 0]
    /\ place' = [half \in {mic, phones} |-> 0]
    /\ failed' = (\E half \in {mic, phones} : pcm_state'[half] = "error")
    /\ at' = "loop" /\ late' = 0
    /\ UNCHANGED <<avail_, delay_, remaining, stalls>>

update_fails(half) == pcm_state[half] \notin {"PREPARED", "RUNNING"}
mic_has_samples == ~update_fails(mic) /\ held[mic] > 0

------------------------------------------------------------------------------
(* The rules.  The fast one is asked before the other's descriptor, which  *)
(* is the microphone's, is polled; an error that poll reports is recovered *)
(* from.  Either calls service_device.                                     *)
FastPath ==
    /\ ~failed /\ at = "loop" /\ mic_has_samples
    /\ at' = "loopback"
    /\ UNCHANGED <<driver_vars, avail_, delay_, remaining, late, stalls, failed>>

SlowPath ==
    /\ ~failed /\ at = "loop" /\ ~update_fails(mic) /\ held[mic] >= AvailMinimum
    /\ at' = "loopback"
    /\ UNCHANGED <<driver_vars, avail_, delay_, remaining, late, stalls, failed>>

PollError ==
    ~failed /\ at = "loop" /\ update_fails(mic) /\ Recover

(* loopback, up to the copying: both halves are updated.                   *)
FoundStopped ==
    /\ ~failed /\ at = "loopback"
    /\ update_fails(mic) \/ update_fails(phones)
    /\ Recover

X_starts_phones == held[phones] > StartThreshold

starts_phones == held[phones] > StartThreshold /\ pcm_state[phones] = "PREPARED"

FoundRunning ==
    /\ ~failed /\ at = "loopback"
    /\ ~update_fails(mic) /\ ~update_fails(phones)
    /\ avail_' = held[mic] /\ delay_' = held[phones]
    /\ remaining' = held[mic]
    /\ pcm_state' = IF held[mic] > 0 /\ starts_phones
                    THEN [pcm_state EXCEPT ![phones] = start(@)] ELSE pcm_state
    /\ failed' = (pcm_state'[phones] = "error")
    /\ at' = "copying" /\ late' = 0
    /\ UNCHANGED <<held, place, stalls>>

(* One round of copy_all_available_samples_to: as much as both rings give  *)
(* in one piece.  When too much would wait in the headphone, one frame of  *)
(* the piece is left out of it.                                            *)
Piece(half, frames) ==
    Min({frames, BufferSize - place[half],
         IF half = mic THEN held[mic] ELSE BufferSize - held[phones]})

X_amount_to_write(num_frames) == num_frames

amount_to_write(num_frames) ==
    IF delay_ + num_frames > SkipThreshold THEN num_frames - 1 ELSE num_frames

CopyPiece ==
    /\ ~failed /\ at = "copying" /\ remaining > 0
    /\ LET num_frames == Piece(phones, Piece(mic, remaining))
           used == [half \in {mic, phones} |->
                      IF half = mic THEN num_frames ELSE amount_to_write(num_frames)] IN
       IF num_frames = 0 THEN failed' = TRUE /\ UNCHANGED <<held, place, remaining>>
       ELSE /\ held' = [held EXCEPT ![mic] = @ - used[mic], ![phones] = @ + used[phones]]
            /\ place' = [half \in {mic, phones} |-> (place[half] + used[half]) % BufferSize]
            /\ remaining' = remaining - num_frames
            /\ UNCHANGED failed
    /\ UNCHANGED <<pcm_state, avail_, delay_, at, late, stalls>>

Copied ==
    /\ ~failed /\ at = "copying" /\ remaining = 0
    /\ at' = "loop"
    /\ UNCHANGED <<driver_vars, avail_, delay_, remaining, late, stalls, failed>>

Program == FastPath \/ SlowPath \/ PollError \/ FoundStopped \/ FoundRunning \/ CopyPiece \/ Copied
DevicesNext == Captures \/ Stall \/ Program

(* The program runs, and so does the clock.                                *)
DevicesFairness == WF_device_vars(Program) /\ WF_device_vars(Captures)

------------------------------------------------------------------------------
(* No exception leaves the rules, in which none is caught: every half is   *)
(* in the state that the next call asks of it, and the headphone has room  *)
(* for what the microphone has, though a loop was late, found old delays,  *)
(* or was held up until both halves had stopped.                           *)
DevicesGoOn == ~failed

(* However often they stop, both halves run again, and the sound that      *)
(* gathers while the headphone waits to be started is shed: it does not    *)
(* keep the delay beyond the threshold for skipping.                       *)
DelayIsShed ==
    (at = "loopback" \/ pcm_state[mic] = "XRUN") ~>
        (/\ \A half \in {mic, phones} : pcm_state[half] = "RUNNING"
         /\ held[phones] <= SkipThreshold)
=============================================================================
