\* A debugger on two pins: scans of every register, early scans, retries, resets and
\* reconnections over a bus of which half answers.
CONSTANTS
    Word = 3
    SbWait = 2
    max_sba_data_width = 8
    Mapped <- EndsMapped
    SbcsValues <- TwoSbcs
    AddressValues <- Last
    DataValues <- Zero
    required_rti_cycles = 1
    DmiScans <- SomeScans
SPECIFICATION Spec
INVARIANTS
    DtmInv
    InFlightIntact
    NoSilentLoss
PROPERTIES
    OncePerScan
