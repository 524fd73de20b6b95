\* Without callbacks that call the driver; a setting of each kind.
SPECIFICATION Spec
CONSTANTS
  Setting = {"sgi", "rts"}
  MaxDepth = 1
PROPERTY SettingsTakeEffect
