--------------------------- MODULE ControlTransfer --------------------------
(***************************************************************************)
(* What the device promises on its control pipe, in terms of what a host   *)
(* sees: one request at a time, which is carried out, answered or refused. *)
(* Whether it is refused depends on the request and on the address and the *)
(* configuration the host has set, not on anything that was repeated,      *)
(* given up or lost before.  A few requests are ignored, and nothing is    *)
(* promised about these; one may be refused or carried out.                *)
(***************************************************************************)
EXTENDS Integers

CONSTANTS
    Requests,       \* [kind, arg]
    ReadKinds       \* the kinds that ask for data

VARIABLES
    address,        \* the device's, -1 while it has none
    configuration,
    request,        \* the one the device is asked, or NoRequest
    answered,       \* its data was sent
    answer          \* and this is it

vars == <<address, configuration, request, answered, answer>>

NoRequest == [kind |-> "none", arg |-> 0]

NoAnswer == [kind |-> "zlp", val |-> 0]

Default == address = 0

Configured == configuration = 1

Addressed == ~Default /\ ~Configured

\* The requests a device refuses.
Refuses(r) ==
    \/ r.kind \in {"OtherRead", "OtherWrite", "SetReport", "Vendor"}
    \/ r.kind = "ClearWakeup" /\ Default
    \/ r.kind = "GetDescriptor" /\ r.arg \notin 1 .. 3
    \/ r.kind = "GetReport" /\ r.arg # 1
    \/ r.kind = "GetConfiguration" /\ Default
    \/ r.kind = "GetStatusInterface" /\ Addressed /\ r.arg # 0
    \/ /\ r.kind = "GetStatusEndpoint"
       /\ Default \/ r.arg \notin 0 .. 3 \/ (Addressed /\ r.arg \notin {0, 1})
    \/ r.kind \in {"SetHalt", "ClearHalt"} /\ (~Configured \/ r.arg \notin {2, 3})
    \/ r.kind = "SetAddress" /\ Configured
    \/ r.kind = "SetConfiguration" /\ (Default \/ r.arg > 1)

\* The one on which the code contradicts itself: usb.h:418-421 clears the
\* feature and confirms "with zero length packet", behind a condition that
\* asks for two device states at once, so that the device always refuses.
Unsettled(r) == r.kind = "ClearWakeup" /\ ~Default

MayRefuse(r) == Refuses(r) \/ Unsettled(r)

\* The ones it does not answer either.
Ignores(r) ==
    \/ r.kind = "Reserved"
    \/ r.kind = "ClassGetDescriptor" /\ r.arg # 1
    \/ r.kind = "SetAddress" /\ r.arg = 0 /\ Default

-----------------------------------------------------------------------------
Init ==
    /\ address = -1 /\ configuration = 0
    /\ request = NoRequest /\ answered = FALSE /\ answer = NoAnswer

End == request' = NoRequest /\ answered' = FALSE /\ answer' = NoAnswer

Ask ==
    /\ request = NoRequest
    /\ request' \in Requests
    /\ UNCHANGED <<address, configuration, answered, answer>>

Refuse ==
    /\ ~answered /\ MayRefuse(request)
    /\ End
    /\ UNCHANGED <<address, configuration>>

\* The answer is of the request's kind; of the values it may have, the
\* configuration is one the host knows.
Deliver ==
    /\ request.kind \in ReadKinds /\ ~answered /\ ~Refuses(request)
    /\ answered' = TRUE
    /\ ~Ignores(request) =>
         /\ answer'.kind = request.kind
         /\ request.kind = "GetConfiguration" => answer'.val = configuration
    /\ UNCHANGED <<address, configuration, request>>

Finish ==
    /\ answered
    /\ End
    /\ UNCHANGED <<address, configuration>>

\* A request without data is carried out.
Perform ==
    /\ request # NoRequest /\ request.kind \notin ReadKinds /\ ~Refuses(request)
    /\ address' = IF request.kind = "SetAddress" THEN request.arg ELSE address
    /\ configuration' = CASE request.kind = "SetConfiguration" -> request.arg
                          [] request.kind = "SetAddress" -> 0
                          [] OTHER -> configuration
    /\ End

\* The host gives up any request but SET_ADDRESS.
GiveUp ==
    /\ request # NoRequest /\ request.kind # "SetAddress"
    /\ End
    /\ UNCHANGED <<address, configuration>>

\* It resets the bus, or the device is unplugged.
Forget ==
    /\ request.kind # "SetAddress"
    /\ address' \in {0, -1} /\ configuration' = 0
    /\ End

Next == Ask \/ Refuse \/ Deliver \/ Finish \/ Perform \/ GiveUp \/ Forget

Spec == Init /\ [][Next]_vars
=============================================================================
