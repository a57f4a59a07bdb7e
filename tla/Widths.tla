------------------------------- MODULE Widths -------------------------------
(* The conversions of one scalar between the guest's and the host's width, *)
(* as the inline functions of runtime/xl_bridge.h make them. The extremes  *)
(* of the guest's type stand for the extremes of the host's (NSNotFound,   *)
(* LONG_MAX), the topmost pointers are small negative numbers (MAP_FAILED, *)
(* RTLD_NEXT) and stay that; every other value keeps its number or ends    *)
(* the process.                                                            *)
EXTENDS Integers

CONSTANTS
    GuestWords,   \* how many values a guest pointer has: 2^64
    HostWords,    \* how many values a host pointer has: 2^32
    Sentinels,    \* how many of the topmost pointers are sentinels: 256
    Fault         \* xl_narrowing_fault: the process ends

ASSUME WordsAssumption ==
    /\ Sentinels \in Nat /\ HostWords \in Nat /\ GuestWords \in Nat
    /\ Sentinels < HostWords /\ 2 * HostWords <= GuestWords
ASSUME FaultAssumption == Fault \notin Int

xl_narrow_signed(value, host_min, host_max, guest_min, guest_max) ==
    IF value = guest_max THEN host_max
    ELSE IF value = guest_min THEN host_min
    ELSE IF value < host_min \/ value > host_max THEN Fault ELSE value

xl_narrow_unsigned(value, host_max, guest_max) ==
    IF value = guest_max THEN host_max
    ELSE IF value > host_max THEN Fault ELSE value

(* (uint32_t)value, for a value of the topmost guest pointers.             *)
xl_narrow_pointer(value) ==
    IF value < HostWords THEN value
    ELSE IF value >= GuestWords - Sentinels THEN value - (GuestWords - HostWords) ELSE Fault

(* (int64_t)(int32_t)value, for one of the topmost host pointers.          *)
xl_widen_pointer(value) ==
    IF value >= HostWords - Sentinels THEN value + (GuestWords - HostWords) ELSE value

xl_widen_signed(value, host_min, host_max, guest_min, guest_max) ==
    IF value = host_max THEN guest_max
    ELSE IF value = host_min THEN guest_min ELSE value

xl_widen_unsigned(value, host_max, guest_max) ==
    IF value = host_max THEN guest_max ELSE value
=============================================================================
