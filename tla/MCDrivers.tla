------------------------------ MODULE MCDrivers ------------------------------
(***************************************************************************)
(* Model checking the drivers of the serial port (Serial), the SPI master   *)
(* (Spi), the I2C master (I2cMaster) and the 1-Wire master (OneWire).  The  *)
(* parts share nothing: a behaviour belongs to one of them, and the others  *)
(* do not move.                                                            *)
(***************************************************************************)
EXTENDS Serial, Spi, I2cMaster, OneWire

CONSTANTS b1, b2

MCBytes == {b1, b2}

\* Two bits of family, one of a serial number, and their parity.
Code(a, b, c) == <<a, b, c, (a + b + c) % 2>>
MCSensors == {Code(0, 1, 0), Code(0, 1, 1), Code(1, 0, 1), Code(1, 1, 0)}

VARIABLE part

driversVars == <<part, serialVars, spiVars, i2cVars, oneWireVars>>

DriversInit ==
    /\ part \in {"serial", "spi", "i2c", "onewire"}
    /\ SerialInit /\ SpiInit /\ I2cInit /\ OneWireInit
    /\ part # "onewire" => present = {}

DriversNext ==
    \/ /\ part = "serial" /\ SerialNext
       /\ UNCHANGED <<part, spiVars, i2cVars, oneWireVars>>
    \/ /\ part = "spi" /\ SpiNext
       /\ UNCHANGED <<part, serialVars, i2cVars, oneWireVars>>
    \/ /\ part = "i2c" /\ I2cNext
       /\ UNCHANGED <<part, serialVars, spiVars, oneWireVars>>
    \/ /\ part = "onewire" /\ OneWireNext
       /\ UNCHANGED <<part, serialVars, spiVars, i2cVars>>

DriversSpec ==
    /\ DriversInit /\ [][DriversNext]_driversVars
    /\ part = "spi" => SpiFairness
    /\ part = "i2c" => I2cFairness

\* Every block of the SPI master is received in full and in order in the end,
\* and every call of the I2C master returns, whatever goes wrong on the bus.
EveryTransferReturns ==
    /\ part = "spi" => BlockEnds
    /\ part = "i2c" => TransferReturns

=============================================================================
