----------------------------- MODULE KernelModule -----------------------------
(* Loading and unloading the kernel module: the ib devices and their network   *)
(* devices are created in one loop and registered in a second one, each step   *)
(* may fail and then undoes the steps before it.  The module stays loaded      *)
(* whatever happens, for bluerdma_init_module drops the result.                *)
EXTENDS Naturals

CONSTANTS N_TESTING, FAULTS   \* of "alloc", "netdev", "register": calls that may fail

ASSUME KernelAssumption == N_TESTING \in Nat \ {0}

VARIABLES
  phase, at,     \* where the module is, and the index of its loop
  ptr,           \* testing_dev[i] is not NULL
  ib, net,       \* the ib device; the network device exists
  netFailed,     \* a network device could not be created
  dead           \* a device was used after it had been freed

kernelVars == <<phase, at, ptr, ib, net, netFailed, dead>>
Devs == 0 .. N_TESTING - 1

KernelInit ==
  /\ phase = "out" /\ at = 0 /\ netFailed = FALSE /\ dead = FALSE
  /\ ptr = [i \in Devs |-> FALSE] /\ ib = [i \in Devs |-> "none"] /\ net = [i \in Devs |-> FALSE]

\* insmod: the static array is zero, bluerdma_probe begins
Load ==
  /\ phase = "out" /\ ~dead
  /\ phase' = "alloc" /\ at' = 0 /\ netFailed' = FALSE
  /\ UNCHANGED <<ptr, ib, net, dead>>

\* "while (--i >= 0)": destroy the devices in front of i
Unwind(i) ==
  /\ net' = [j \in Devs |-> IF j < i THEN FALSE ELSE net[j]]
  /\ ib' = [j \in Devs |-> IF j < i THEN "none" ELSE IF j = at THEN "none" ELSE ib[j]]
  /\ phase' = "in"

AllocDevice ==
  /\ phase = "alloc"
  /\ \/ /\ ib' = [ib EXCEPT ![at] = "alloc"] /\ ptr' = [ptr EXCEPT ![at] = TRUE]
        /\ phase' = "netdev" /\ UNCHANGED net
     \/ /\ "alloc" \in FAULTS /\ Unwind(at)
        /\ ptr' = [j \in Devs |-> IF j < at THEN FALSE ELSE ptr[j]]
  /\ UNCHANGED <<at, netFailed, dead>>

CreateNetdev_KeepFirst ==
  /\ phase = "netdev"
  /\ \/ /\ net' = [net EXCEPT ![at] = TRUE] /\ UNCHANGED <<ptr, ib, netFailed>>
        /\ at' = (at + 1) % N_TESTING /\ phase' = IF at = N_TESTING - 1 THEN "register" ELSE "alloc"
     \/ /\ "netdev" \in FAULTS /\ netFailed' = TRUE /\ UNCHANGED at /\ phase' = "in"
        /\ net' = [j \in Devs |-> IF j \in 1 .. at - 1 THEN FALSE ELSE net[j]]
        /\ ib' = [j \in Devs |-> IF j \in 1 .. at THEN "none" ELSE ib[j]]
        /\ ptr' = [j \in Devs |-> IF j < at THEN FALSE ELSE ptr[j]]
  /\ UNCHANGED dead

\* bluerdma_create_netdev; when it fails the ib device is freed as well, but its
\* pointer stays
CreateNetdev ==
  /\ phase = "netdev"
  /\ \/ /\ net' = [net EXCEPT ![at] = TRUE] /\ UNCHANGED <<ptr, ib, netFailed>>
        /\ at' = (at + 1) % N_TESTING /\ phase' = IF at = N_TESTING - 1 THEN "register" ELSE "alloc"
     \/ /\ "netdev" \in FAULTS /\ netFailed' = TRUE /\ UNCHANGED at
        /\ Unwind(at) /\ ptr' = [j \in Devs |-> IF j < at THEN FALSE ELSE ptr[j]]
  /\ UNCHANGED dead

\* bluerdma_free_testing
FreeTesting ==
  /\ ptr' = [j \in Devs |-> FALSE]
  /\ ib' = [j \in Devs |-> IF ptr[j] THEN "none" ELSE ib[j]]
  /\ net' = [j \in Devs |-> IF ptr[j] THEN FALSE ELSE net[j]]

RegisterDevice_KeepPointers ==
  /\ phase = "register"
  /\ \/ /\ ib' = [ib EXCEPT ![at] = "reg"] /\ UNCHANGED <<ptr, net>>
        /\ at' = (at + 1) % N_TESTING /\ phase' = IF at = N_TESTING - 1 THEN "in" ELSE phase
     \/ /\ "register" \in FAULTS /\ phase' = "in" /\ UNCHANGED <<at, ptr>>
        /\ ib' = [j \in Devs |-> "none"] /\ net' = [j \in Devs |-> FALSE]
  /\ UNCHANGED <<netFailed, dead>>

\* the loop of bluerdma_ib_device_add; on failure the devices registered so far
\* are unregistered and all of them freed
RegisterDevice ==
  /\ phase = "register"
  /\ \/ /\ ib' = [ib EXCEPT ![at] = "reg"] /\ UNCHANGED <<ptr, net>>
        /\ at' = (at + 1) % N_TESTING /\ phase' = IF at = N_TESTING - 1 THEN "in" ELSE phase
     \/ /\ "register" \in FAULTS /\ FreeTesting /\ phase' = "in" /\ UNCHANGED at
  /\ UNCHANGED <<netFailed, dead>>

\* rmmod: bluerdma_ib_device_remove uses every device whose pointer is set
Unload ==
  /\ phase = "in"
  /\ dead' = (dead \/ \E i \in Devs : ptr[i] /\ ib[i] = "none")
  /\ FreeTesting /\ phase' = "out"
  /\ UNCHANGED <<at, netFailed>>

KernelNext == Load \/ AllocDevice \/ CreateNetdev \/ RegisterDevice \/ Unload

----------------------------------------------------------------------------
\* Whichever call fails, loading leaves all devices registered, each with its
\* network device, or none of them.
AllOrNothing ==
  phase = "in" =>
    \/ \A i \in Devs : ib[i] = "reg" /\ net[i] /\ ptr[i]
    \/ \A i \in Devs : ib[i] = "none" /\ ~net[i]

\* Unloading uses no freed device: the error paths clear the pointers that
\* bluerdma_ib_device_remove goes by.
UnloadTouchesLive == ~dead

\* Unloading uses no freed device unless the creation of a network device
\* failed: that path of bluerdma_new_testing frees the device and keeps the
\* pointer; all the other error paths clear it.
UnloadTouchesLiveElse == dead => netFailed

----------------------------------------------------------------------------
(* The invariant behind the two: what is made of each device in each phase    *)

KernelTypeOK ==
  /\ phase \in {"out", "alloc", "netdev", "register", "in"} /\ at \in Devs
  /\ ptr \in [Devs -> BOOLEAN] /\ net \in [Devs -> BOOLEAN]
  /\ ib \in [Devs -> {"none", "alloc", "reg"}]
  /\ netFailed \in BOOLEAN /\ dead \in BOOLEAN

Whole(i, state) == ptr[i] /\ net[i] /\ ib[i] = state
Absent(i) == ~ptr[i] /\ ~net[i] /\ ib[i] = "none"

\* The loops have passed the devices in front of `at', and no other one exists;
\* but for the device whose network device is about to be created.
DevicesInv ==
  /\ phase = "out" => \A i \in Devs : Absent(i)
  /\ phase \in {"alloc", "netdev"} =>
       /\ \A i \in Devs : i < at => Whole(i, "alloc")
       /\ \A i \in Devs : i > at => Absent(i)
  /\ phase = "alloc" => Absent(at)
  /\ phase = "netdev" => ptr[at] /\ ~net[at] /\ ib[at] = "alloc"
  /\ phase = "register" =>
       \A i \in Devs : Whole(i, IF i < at THEN "reg" ELSE "alloc")

\* A pointer outlives its device only after the failure of a network device.
PointersInv == phase = "in" /\ ~netFailed => \A i \in Devs : ptr[i] => ib[i] = "reg"

KernelInv == KernelTypeOK /\ DevicesInv /\ PointersInv /\ AllOrNothing /\ UnloadTouchesLiveElse
=============================================================================
