SPECIFICATION Spec
CONSTANTS
  FourCCs = {"DXIL", "PSV0", "RTS0", "PRIV", "ILDB"}
  DXIL = "DXIL"
  PSV0 = "PSV0"
  RTS0 = "RTS0"
  PRIV = "PRIV"
  Changeable = {"RTS0", "PRIV", "ILDB"}
  Blobs = {"code", "psv", "rs", "misfit", "text", "odd"}
  SizeOf <- MCSizeOf
  Compatible <- MCCompatible
  Sources <- MCSources
  Added <- MCAdded
  None = None
  MaxSize = 1000
INVARIANTS PartsInOrder OutputValid RootSignatureChecked DigestEarned
PROPERTIES LoadExact OrderKept Implements
