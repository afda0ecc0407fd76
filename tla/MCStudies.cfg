SPECIFICATION MCSpec
CONSTANTS
  Voices <- ThreeVoices
  MaskBytes <- TwoBytes
  Writes = 4
  NumVoices = 3
  Tones = {piano, strings}
  First = FALSE
  Fine <- RampFine
  Coarse <- RampCoarse
  GlideRate <- RampGlide
  RateOf <- RampRate
  DepthOf <- RampDepth
  CutoffDepthOf <- RampCutoffDepth
  SineOf <- ArcSine
  SlewStep <- Slews
  Attenuation <- RampAttenuation
  Loudness <- RampLoudness
  Factor <- RampFactor
  KeyLevelOf <- RampFactor
  KeyTimeOf <- RampKeyTime
  DelayOf <- RampDelay
  LfoTimeOf <- RampLfoTime
  PanGain <- RampPan
  WaveOf <- ThreeWaves
  Patches <- FourPatches
  Sample <- Wood
  StartPart <- Room
  Velocities = {1, 127}
  Pressures = {127}
  Volumes = {0}
  Depths = {0, 70}
  Settings = {0}
  Elapsed = {1, 20}
  Chip = {9000, 4000}
  MaxTicks = 3
  MaxTurns = 1
  Rows = 1
  Keys = {"t", "right", "q"}
  ButtonsOf <- PanelKeys
  DemoMasks <- PanelDemo
INVARIANTS AddedWithinLimits StepFollowsPitch
PROPERTIES EveryVoiceTells EveryButtonTold NoneBeforeCommit FrozenOnlyByRestart NothingOvershoots OnsetNeverReturns HarderIsNearer SettingsWorkOneWay
