---------------------------- MODULE MCUsbControl ----------------------------
(***************************************************************************)
(* UsbControl with the requests of an enumerating host, one representative *)
(* of each branch of the handler.                                          *)
(***************************************************************************)
EXTENDS UsbControl

MCRequests ==
    { Request("GetDescriptor", 1), Request("GetDescriptor", 6),
      Request("GetConfiguration", 0), Request("ClassGetDescriptor", 1),
      Request("GetReport", 1), Request("GetIdle", 0),
      Request("GetStatusInterface", 0), Request("GetStatusInterface", 1),
      Request("GetStatusEndpoint", 2), Request("GetStatusEndpoint", 9),
      Request("SetAddress", 0), Request("SetAddress", 5),
      Request("SetConfiguration", 0), Request("SetConfiguration", 1),
      Request("SetHalt", 2), Request("ClearHalt", 2),
      Request("SetWakeup", 0), Request("ClearWakeup", 0), Request("SetProtocol", 0) }

\* Class requests, a refused one, those that get no answer, and one of each
\* shape of standard transfer, for the run in which the bus sleeps.
MCSessionRequests ==
    { Request("GetReport", 1), Request("ClassGetDescriptor", 3),
      Request("OtherWrite", 0), Request("SetIdle", 0), Request("Reserved", 0),
      Request("SetAddress", 5), Request("SetConfiguration", 1) }

\* What the address run needs.
MCAddressRequests == { Request("GetDescriptor", 1), Request("SetAddress", 5) }

\* What the protocol run needs.
MCProtocolRequests == { Request("SetProtocol", 0), Request("SetProtocol", 1),
                        Request("GetProtocol", 0) }
=============================================================================
