CONSTANTS
  UnkillTicks = 2
SPECIFICATION Spec
PROPERTIES UnkillNeedsLongPress ButtonObeyed
