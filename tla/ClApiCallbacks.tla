--------------------------- MODULE ClApiCallbacks ---------------------------
(***************************************************************************)
(* The call logging of the OpenCL API collector (cl_api_callbacks.h): each *)
(* function the runtime traces has a handler for its enter callback and    *)
(* one for its exit callback, which here are what they do with pointers.   *)
(* The text of the lines and the arguments that are values are left out.   *)
(***************************************************************************)

\* The two handlers of a function.  prints: the pointers in the enter line that
\* a collector may replace; reads: those whose targets the enter handler prints
\* if they are not null; substitutes: whether it then points a null errcodeRet at
\* current_error; status: where the exit handler takes the status from.
Handlers ==
  [prints : SUBSET {"event", "properties", "errcodeRet"},
   reads : SUBSET {"options", "kernelName", "kernelNames", "funcName", "kernel",
                   "globalWorkOffset", "globalWorkSize", "localWorkSize"},
   substitutes : BOOLEAN, status : {"return value", "errcodeRet", "none"}]

\* A function that returns its status, ...
Returns(prints, reads) ==
  [prints |-> prints, reads |-> reads, substitutes |-> FALSE, status |-> "return value"]

\* ... one that returns an object, and its status through errcodeRet, ...
CreatesUnchecked(prints, reads) ==  \* Fault: a null errcodeRet is left null.
  [prints |-> prints, reads |-> reads, substitutes |-> FALSE, status |-> "errcodeRet"]

Creates(prints, reads) ==
  [prints |-> prints, reads |-> reads, substitutes |-> TRUE, status |-> "errcodeRet"]

\* ... and one without a status.
Silent(prints, reads) ==
  [prints |-> prints, reads |-> reads, substitutes |-> FALSE, status |-> "none"]

-----------------------------------------------------------------------------
(* Platforms, devices and contexts.                                        *)

clCreateContext == Creates({"errcodeRet"}, {})
clCreateContextFromType == Creates({"errcodeRet"}, {})
clCreateSubDevices == Returns({}, {})
clGetContextInfo == Returns({}, {})
clGetDeviceAndHostTimer == Returns({}, {})
clGetDeviceIDs == Returns({}, {})
clGetDeviceInfo == Returns({}, {})
clGetHostTimer == Returns({}, {})
clGetPlatformIDs == Returns({}, {})
clGetPlatformInfo == Returns({}, {})
clReleaseContext == Returns({}, {})
clReleaseDevice == Returns({}, {})
clRetainContext == Returns({}, {})
clRetainDevice == Returns({}, {})
clUnloadPlatformCompiler == Returns({}, {})

-----------------------------------------------------------------------------
(* Command queues and events.                                              *)

clCreateCommandQueue == Creates({"errcodeRet"}, {})
clCreateCommandQueueWithProperties == Creates({"properties", "errcodeRet"}, {})
clCreateUserEvent == Creates({"errcodeRet"}, {})
clFinish == Returns({}, {})
clFlush == Returns({}, {})
clGetCommandQueueInfo == Returns({}, {})
clGetEventInfo == Returns({}, {})
clGetEventProfilingInfo == Returns({}, {})
clReleaseCommandQueue == Returns({}, {})
clReleaseEvent == Returns({}, {})
clRetainCommandQueue == Returns({}, {})
clRetainEvent == Returns({}, {})
clSetCommandQueueProperty == Returns({}, {})
clSetDefaultDeviceCommandQueue == Returns({}, {})
clSetEventCallback == Returns({}, {})
clSetUserEventStatus == Returns({}, {})
clWaitForEvents == Returns({}, {})

-----------------------------------------------------------------------------
(* Commands.                                                               *)

clEnqueueAcquireGLObjects == Returns({"event"}, {})
clEnqueueBarrier == Returns({}, {})
clEnqueueBarrierWithWaitList == Returns({"event"}, {})
clEnqueueCopyBuffer == Returns({"event"}, {})
clEnqueueCopyBufferRect == Returns({"event"}, {})
clEnqueueCopyBufferToImage == Returns({"event"}, {})
clEnqueueCopyImage == Returns({"event"}, {})
clEnqueueCopyImageToBuffer == Returns({"event"}, {})
clEnqueueFillBuffer == Returns({"event"}, {})
clEnqueueFillImage == Returns({"event"}, {})
clEnqueueMapBuffer == Creates({"event", "errcodeRet"}, {})
clEnqueueMapImage == Creates({"event", "errcodeRet"}, {})
clEnqueueMarker == Returns({"event"}, {})
clEnqueueMarkerWithWaitList == Returns({"event"}, {})
clEnqueueMigrateMemObjects == Returns({"event"}, {})
clEnqueueNDRangeKernel ==
  Returns({"event"}, {"kernel", "globalWorkOffset", "globalWorkSize", "localWorkSize"})
clEnqueueNativeKernel == Returns({"event"}, {})
clEnqueueReadBuffer == Returns({"event"}, {})
clEnqueueReadBufferRect == Returns({"event"}, {})
clEnqueueReadImage == Returns({"event"}, {})
clEnqueueReleaseGLObjects == Returns({"event"}, {})
clEnqueueSVMFree == Returns({"event"}, {})
clEnqueueSVMMap == Returns({"event"}, {})
clEnqueueSVMMemFill == Returns({"event"}, {})
clEnqueueSVMMemcpy == Returns({"event"}, {})
clEnqueueSVMMigrateMem == Returns({"event"}, {})
clEnqueueSVMUnmap == Returns({"event"}, {})
clEnqueueTask == Returns({"event"}, {"kernel"})
clEnqueueUnmapMemObject == Returns({"event"}, {})
clEnqueueWaitForEvents == Returns({}, {})
clEnqueueWriteBuffer == Returns({"event"}, {})
clEnqueueWriteBufferRect == Returns({"event"}, {})
clEnqueueWriteImage == Returns({"event"}, {})

-----------------------------------------------------------------------------
(* Programs and kernels.                                                   *)

clBuildProgram == Returns({}, {"options"})
clCloneKernelUnchecked == CreatesUnchecked({"errcodeRet"}, {})  \* Fault
clCloneKernel == Creates({"errcodeRet"}, {})
clCompileProgram == Returns({}, {"options"})
clCreateKernel == Creates({"errcodeRet"}, {"kernelName"})
clCreateKernelsInProgram == Returns({}, {})
clCreateProgramWithBinary == Creates({"errcodeRet"}, {})
clCreateProgramWithBuiltInKernels == Creates({"errcodeRet"}, {"kernelNames"})
clCreateProgramWithIL == Creates({"errcodeRet"}, {})
clCreateProgramWithSource == Creates({"errcodeRet"}, {})
clGetKernelArgInfo == Returns({}, {})
clGetKernelInfo == Returns({}, {})
clGetKernelSubGroupInfo == Returns({}, {})
clGetKernelWorkGroupInfo == Returns({}, {})
clGetProgramBuildInfo == Returns({}, {})
clGetProgramInfo == Returns({}, {})
clLinkProgram == Creates({"errcodeRet"}, {"options"})
clReleaseKernel == Returns({}, {})
clReleaseProgram == Returns({}, {})
clRetainKernel == Returns({}, {})
clRetainProgram == Returns({}, {})
clSetKernelArg == Returns({}, {})
clSetKernelArgSVMPointer == Returns({}, {})
clSetKernelExecInfo == Returns({}, {})
clUnloadCompiler == Returns({}, {})

-----------------------------------------------------------------------------
(* Memory, images and samplers.                                            *)

clCreateBuffer == Creates({"errcodeRet"}, {})
clCreateFromGLBuffer == Creates({"errcodeRet"}, {})
clCreateFromGLRenderbuffer == Creates({"errcodeRet"}, {})
clCreateFromGLTexture == Creates({"errcodeRet"}, {})
clCreateFromGLTexture2D == Creates({"errcodeRet"}, {})
clCreateFromGLTexture3D == Creates({"errcodeRet"}, {})
clCreateImage == Creates({"errcodeRet"}, {})
clCreateImage2D == Creates({"errcodeRet"}, {})
clCreateImage3D == Creates({"errcodeRet"}, {})
clCreatePipe == Creates({"errcodeRet"}, {})
clCreateSampler == Creates({"errcodeRet"}, {})
clCreateSamplerWithProperties == Creates({"errcodeRet"}, {})
clCreateSubBuffer == Creates({"errcodeRet"}, {})
clGetGLObjectInfo == Returns({}, {})
clGetGLTextureInfo == Returns({}, {})
clGetImageInfo == Returns({}, {})
clGetMemObjectInfo == Returns({}, {})
clGetPipeInfo == Returns({}, {})
clGetSamplerInfo == Returns({}, {})
clGetSupportedImageFormats == Returns({}, {})
clReleaseMemObject == Returns({}, {})
clReleaseSampler == Returns({}, {})
clRetainMemObject == Returns({}, {})
clRetainSampler == Returns({}, {})
clSVMAlloc == Silent({}, {})
clSVMFree == Silent({}, {})
clSetMemObjectDestructorCallback == Returns({}, {})

-----------------------------------------------------------------------------
(* Addresses of extension functions.                                       *)

clGetExtensionFunctionAddress == Silent({}, {"funcName"})
clGetExtensionFunctionAddressForPlatform == Silent({}, {"funcName"})

-----------------------------------------------------------------------------
(* The switches of the dispatchers.                                       *)

\* Of a function, which handlers its callbacks come to.
OnEnterFunction ==
  [clBuildProgram |-> clBuildProgram, clCloneKernel |-> clCloneKernel,
   clCompileProgram |-> clCompileProgram, clCreateBuffer |-> clCreateBuffer,
   clCreateCommandQueue |-> clCreateCommandQueue,
   clCreateCommandQueueWithProperties |-> clCreateCommandQueueWithProperties,
   clCreateContext |-> clCreateContext,
   clCreateContextFromType |-> clCreateContextFromType,
   clCreateFromGLBuffer |-> clCreateFromGLBuffer,
   clCreateFromGLRenderbuffer |-> clCreateFromGLRenderbuffer,
   clCreateFromGLTexture |-> clCreateFromGLTexture,
   clCreateFromGLTexture2D |-> clCreateFromGLTexture2D,
   clCreateFromGLTexture3D |-> clCreateFromGLTexture3D, clCreateImage |-> clCreateImage,
   clCreateImage2D |-> clCreateImage2D, clCreateImage3D |-> clCreateImage3D,
   clCreateKernel |-> clCreateKernel,
   clCreateKernelsInProgram |-> clCreateKernelsInProgram, clCreatePipe |-> clCreatePipe,
   clCreateProgramWithBinary |-> clCreateProgramWithBinary,
   clCreateProgramWithBuiltInKernels |-> clCreateProgramWithBuiltInKernels,
   clCreateProgramWithIL |-> clCreateProgramWithIL,
   clCreateProgramWithSource |-> clCreateProgramWithSource,
   clCreateSampler |-> clCreateSampler,
   clCreateSamplerWithProperties |-> clCreateSamplerWithProperties,
   clCreateSubBuffer |-> clCreateSubBuffer, clCreateSubDevices |-> clCreateSubDevices,
   clCreateUserEvent |-> clCreateUserEvent,
   clEnqueueAcquireGLObjects |-> clEnqueueAcquireGLObjects,
   clEnqueueBarrier |-> clEnqueueBarrier,
   clEnqueueBarrierWithWaitList |-> clEnqueueBarrierWithWaitList,
   clEnqueueCopyBuffer |-> clEnqueueCopyBuffer,
   clEnqueueCopyBufferRect |-> clEnqueueCopyBufferRect,
   clEnqueueCopyBufferToImage |-> clEnqueueCopyBufferToImage,
   clEnqueueCopyImage |-> clEnqueueCopyImage,
   clEnqueueCopyImageToBuffer |-> clEnqueueCopyImageToBuffer,
   clEnqueueFillBuffer |-> clEnqueueFillBuffer,
   clEnqueueFillImage |-> clEnqueueFillImage, clEnqueueMapBuffer |-> clEnqueueMapBuffer,
   clEnqueueMapImage |-> clEnqueueMapImage, clEnqueueMarker |-> clEnqueueMarker,
   clEnqueueMarkerWithWaitList |-> clEnqueueMarkerWithWaitList,
   clEnqueueMigrateMemObjects |-> clEnqueueMigrateMemObjects,
   clEnqueueNDRangeKernel |-> clEnqueueNDRangeKernel,
   clEnqueueNativeKernel |-> clEnqueueNativeKernel,
   clEnqueueReadBuffer |-> clEnqueueReadBuffer,
   clEnqueueReadBufferRect |-> clEnqueueReadBufferRect,
   clEnqueueReadImage |-> clEnqueueReadImage,
   clEnqueueReleaseGLObjects |-> clEnqueueReleaseGLObjects,
   clEnqueueSVMFree |-> clEnqueueSVMFree, clEnqueueSVMMap |-> clEnqueueSVMMap,
   clEnqueueSVMMemFill |-> clEnqueueSVMMemFill,
   clEnqueueSVMMemcpy |-> clEnqueueSVMMemcpy,
   clEnqueueSVMMigrateMem |-> clEnqueueSVMMigrateMem,
   clEnqueueSVMUnmap |-> clEnqueueSVMUnmap, clEnqueueTask |-> clEnqueueTask,
   clEnqueueUnmapMemObject |-> clEnqueueUnmapMemObject,
   clEnqueueWaitForEvents |-> clEnqueueWaitForEvents,
   clEnqueueWriteBuffer |-> clEnqueueWriteBuffer,
   clEnqueueWriteBufferRect |-> clEnqueueWriteBufferRect,
   clEnqueueWriteImage |-> clEnqueueWriteImage, clFinish |-> clFinish,
   clFlush |-> clFlush, clGetCommandQueueInfo |-> clGetCommandQueueInfo,
   clGetContextInfo |-> clGetContextInfo,
   clGetDeviceAndHostTimer |-> clGetDeviceAndHostTimer,
   clGetDeviceIDs |-> clGetDeviceIDs, clGetDeviceInfo |-> clGetDeviceInfo,
   clGetEventInfo |-> clGetEventInfo,
   clGetEventProfilingInfo |-> clGetEventProfilingInfo,
   clGetExtensionFunctionAddress |-> clGetExtensionFunctionAddress,
   clGetExtensionFunctionAddressForPlatform |-> clGetExtensionFunctionAddressForPlatform,
   clGetGLObjectInfo |-> clGetGLObjectInfo, clGetGLTextureInfo |-> clGetGLTextureInfo,
   clGetHostTimer |-> clGetHostTimer, clGetImageInfo |-> clGetImageInfo,
   clGetKernelArgInfo |-> clGetKernelArgInfo, clGetKernelInfo |-> clGetKernelInfo,
   clGetKernelSubGroupInfo |-> clGetKernelSubGroupInfo,
   clGetKernelWorkGroupInfo |-> clGetKernelWorkGroupInfo,
   clGetMemObjectInfo |-> clGetMemObjectInfo, clGetPipeInfo |-> clGetPipeInfo,
   clGetPlatformIDs |-> clGetPlatformIDs, clGetPlatformInfo |-> clGetPlatformInfo,
   clGetProgramBuildInfo |-> clGetProgramBuildInfo,
   clGetProgramInfo |-> clGetProgramInfo, clGetSamplerInfo |-> clGetSamplerInfo,
   clGetSupportedImageFormats |-> clGetSupportedImageFormats,
   clLinkProgram |-> clLinkProgram, clReleaseCommandQueue |-> clReleaseCommandQueue,
   clReleaseContext |-> clReleaseContext, clReleaseDevice |-> clReleaseDevice,
   clReleaseEvent |-> clReleaseEvent, clReleaseKernel |-> clReleaseKernel,
   clReleaseMemObject |-> clReleaseMemObject, clReleaseProgram |-> clReleaseProgram,
   clReleaseSampler |-> clReleaseSampler, clRetainCommandQueue |-> clRetainCommandQueue,
   clRetainContext |-> clRetainContext, clRetainDevice |-> clRetainDevice,
   clRetainEvent |-> clRetainEvent, clRetainKernel |-> clRetainKernel,
   clRetainMemObject |-> clRetainMemObject, clRetainProgram |-> clRetainProgram,
   clRetainSampler |-> clRetainSampler, clSVMAlloc |-> clSVMAlloc,
   clSVMFree |-> clSVMFree, clSetCommandQueueProperty |-> clSetCommandQueueProperty,
   clSetDefaultDeviceCommandQueue |-> clSetDefaultDeviceCommandQueue,
   clSetEventCallback |-> clSetEventCallback, clSetKernelArg |-> clSetKernelArg,
   clSetKernelArgSVMPointer |-> clSetKernelArgSVMPointer,
   clSetKernelExecInfo |-> clSetKernelExecInfo,
   clSetMemObjectDestructorCallback |-> clSetMemObjectDestructorCallback,
   clSetUserEventStatus |-> clSetUserEventStatus, clUnloadCompiler |-> clUnloadCompiler,
   clUnloadPlatformCompiler |-> clUnloadPlatformCompiler,
   clWaitForEvents |-> clWaitForEvents]

\* The second switch has the same functions.
OnExitFunction(f) == OnEnterFunction[f]

=============================================================================
