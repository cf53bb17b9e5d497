---------------------------- MODULE MCTransport ----------------------------
EXTENDS TransportProps

CONSTANTS t1, t2

\* The instance of a run: one or two transports, of one device or of two.
OneTcp == (t1 :> "tcp")
TcpAndEmulator == (t1 :> "tcp") @@ (t2 :> "emulator")
UsbAndEmulator == (t1 :> "usb") @@ (t2 :> "emulator")
SameDevice == (t1 :> "a") @@ (t2 :> "a")
TwoDevices == (t1 :> "a") @@ (t2 :> "b")
OneDevice == (t1 :> "a")
=============================================================================
